---------------------------- MODULE Spec2Model ----------------------------
(***************************************************************************)
(* Identity and credential management of nasa-biology-engine:              *)
(*   backend/logic/auth.py   password accounts and revocable sessions      *)
(*   backend/db.py           OAuth user records (create_or_update_user)    *)
(*   backend/encryption.py   encrypt_value / decrypt_value                 *)
(*   backend/auth_oauth.py   OAuth JWT issue / verify                      *)
(*                                                                         *)
(* The module holds one specification per part of the program; each       *)
(* leaves the variables of the other parts unchanged:                      *)
(*   Spec        password store, requests served one at a time             *)
(*   SpecAdmin   the same, with accounts being deactivated                 *)
(*   SpecSignup  concurrent create_user requests                           *)
(*   SpecVault   encrypt_value / decrypt_value                             *)
(*   SpecOAuth   concurrent create_or_update_user calls                    *)
(*   SpecOAuthAdmin  the same, with user documents being deactivated       *)
(*   SpecToken   the password store with the OAuth token functions and     *)
(*               the two request boundaries                                *)
(*   SpecBoot    process startup in any environment                        *)
(*   SpecUpsert  OAuth callbacks with changing profiles, with the clock    *)
(*   SpecFlow    the OAuth endpoints: callback, current user, refresh,     *)
(*               logout, with the clock                                    *)
(*   SpecSecret  callbacks and reads of the stored access token            *)
(*   SpecHttp    the endpoints' answers, with failing storage and input    *)
(***************************************************************************)
EXTENDS Integers, Sequences, FiniteSets, TLC

VARIABLES
    now,         \* wall clock (datetime.utcnow), in ticks of 1/TicksPerSec s
    users,       \* table users of users.db, in rowid order
    sessions,    \* table user_sessions of users.db, in rowid order
    cpc,         \* create_user: position of each concurrent request
    cargs,       \* create_user: arguments of each concurrent request
    last,        \* the call that returned last, and its result
    loggedOut,   \* tokens for which logout_user has returned success
    issued       \* tokens authenticate_user has returned

pwVars == <<now, users, sessions, cpc, cargs, last, loggedOut, issued>>

-----------------------------------------------------------------------------
(* Bounds of the model *)

TicksPerSec == 1      \* clock ticks per second
MaxDrift == 1         \* ticks the clock may move after each epoch
MaxUsers == 2         \* rows of users
MaxSessions == 2      \* rows of user_sessions
NumProcs == 2         \* concurrent create_user requests

(* Program constants *)

JWT_EXPIRATION_HOURS == 24
JWT_EXPIRATION_DAYS == 7
SecondsPerHour == 60 * 60

Names == {"a", "b"}          \* usernames, emails and login identifiers
Passwords == {"p", "q"}
PwSalts == {"s1"}            \* values of secrets.token_hex(16)
Procs == 1..NumProcs

EnvJwtSecret == "s3cret"     \* os.getenv('JWT_SECRET')
DefaultJwtSecret == "your-secret-key-change-in-production"
JWT_SECRET == IF EnvJwtSecret = "" THEN DefaultJwtSecret ELSE EnvJwtSecret

PwTtlTicks == JWT_EXPIRATION_HOURS * SecondsPerHour * TicksPerSec

-----------------------------------------------------------------------------
(* Clock *)

\* A datetime as the integer timestamp PyJWT writes into a claim
\* (timegm(utctimetuple()): whole seconds, fraction dropped).
ToTimestamp(t) == t \div TicksPerSec

\* timedelta(hours = h) in ticks
Hours(h) == h * SecondsPerHour * TicksPerSec

\* timedelta(days = d) in ticks
Days(d) == Hours(24 * d)

InHorizon(t) == t <= PwTtlTicks + MaxDrift /\ (t % PwTtlTicks) <= MaxDrift

-----------------------------------------------------------------------------
(* Password hashing *)

\* hashlib.pbkdf2_hmac('sha256', password, salt, 100000).hex(): a
\* collision-free function of password and salt.
hash_password(password, salt) == <<"pbkdf2", password, salt>>

verify_password(password, password_hash, salt) ==
    hash_password(password, salt) = password_hash

-----------------------------------------------------------------------------
(* Tokens *)

NoToken == [user_id |-> <<"none", 0>>, username |-> "", email |-> "",
            exp |-> -1, iat |-> -1, iss |-> "", aud |-> "", key |-> ""]

\* jwt.encode(payload, secret, HS256): the claims and an HMAC that is a
\* function of the claims and the secret; absent claims are "" / -1.
JwtEncode(payload, secret) == [payload EXCEPT !.key = secret]

PwPayload(user_id, username, email, tExp, tIat) ==
    [NoToken EXCEPT !.user_id = <<"int", user_id>>,
                    !.username = username,
                    !.email = email,
                    !.exp = ToTimestamp(tExp + Hours(JWT_EXPIRATION_HOURS)),
                    !.iat = ToTimestamp(tIat)]

\* str(v)
Str(v) == <<"str", v[2]>>

\* (the payload written without the user_id claim)
create_jwt_token_Mut(user_id, t) ==
    JwtEncode([NoToken EXCEPT
                 !.exp = ToTimestamp(t + Days(JWT_EXPIRATION_DAYS)),
                 !.iat = ToTimestamp(t),
                 !.iss = "space-biology-engine",
                 !.aud = "space-biology-frontend"], EnvJwtSecret)

\* create_jwt_token of the OAuth path, signed with the same environment secret
create_jwt_token(user_id, t) ==
    JwtEncode([NoToken EXCEPT
                 !.user_id = Str(user_id),
                 !.exp = ToTimestamp(t + Days(JWT_EXPIRATION_DAYS)),
                 !.iat = ToTimestamp(t),
                 !.iss = "space-biology-engine",
                 !.aud = "space-biology-frontend"], EnvJwtSecret)

\* (the audience validated before the issuer)
JwtDecode_Mut(token, secret, issuer, audience, t) ==
    IF token.key # secret THEN "InvalidSignatureError"
    ELSE IF token.exp # -1 /\ token.exp * TicksPerSec <= t
        THEN "ExpiredSignatureError"
    ELSE IF audience = "" /\ token.aud # "" THEN "InvalidAudienceError"
    ELSE IF audience # "" /\ token.aud = "" THEN "MissingRequiredClaimError"
    ELSE IF audience # "" /\ token.aud # audience THEN "InvalidAudienceError"
    ELSE IF issuer # "" /\ token.iss = "" THEN "MissingRequiredClaimError"
    ELSE IF issuer # "" /\ token.iss # issuer THEN "InvalidIssuerError"
    ELSE "ok"

\* jwt.decode(token, secret, algorithms, issuer, audience) at time t:
\* "ok" or the exception PyJWT raises.  issuer/audience "" = not given.
JwtDecode(token, secret, issuer, audience, t) ==
    IF token.key # secret THEN "InvalidSignatureError"
    ELSE IF token.exp # -1 /\ token.exp * TicksPerSec <= t
        THEN "ExpiredSignatureError"
    ELSE IF issuer # "" /\ token.iss = "" THEN "MissingRequiredClaimError"
    ELSE IF issuer # "" /\ token.iss # issuer THEN "InvalidIssuerError"
    ELSE IF audience = "" /\ token.aud # "" THEN "InvalidAudienceError"
    ELSE IF audience # "" /\ token.aud = "" THEN "MissingRequiredClaimError"
    ELSE IF audience # "" /\ token.aud # audience THEN "InvalidAudienceError"
    ELSE "ok"

\* hashlib.sha256(token.encode()).hexdigest(): collision-free digest
Sha256(token) == <<"sha256", token>>

-----------------------------------------------------------------------------
(* Password store: results *)

NoUser == [id |-> <<"none", 0>>, username |-> "", email |-> ""]

Failure(message) ==
    [success |-> FALSE, message |-> message, token |-> NoToken,
     user |-> NoUser, user_id |-> 0]

NoResult == Failure("")

\* Messages of authenticate_user's failure returns
NoUserMessage_Mut == "User not found"

NoUserMessage == "Invalid credentials"
WrongPasswordMessage == "Invalid credentials"
DeactivatedMessage == "Account is deactivated"

NoRow == 0

\* The record of the call that returned last: op names the function, res is
\* what it returned, the other fields are its arguments and what held when it
\* ran.  It is cleared when the environment moves, so that it always speaks
\* of the current tables and clock.
NoCall ==
    [op |-> "none", res |-> NoResult,
     identifier |-> "", password |-> "",
     row |-> NoRow, owners |-> {},         \* authenticate_user
     dup |-> FALSE, added |-> FALSE,       \* create_user
     token |-> NoToken, revoked |-> FALSE]  \* verify_token, logout_user

\* Rows SELECT ... WHERE username = ? OR email = ? can return
Matching(usrs, username, email) ==
    {i \in 1..Len(usrs) : usrs[i].username = username \/ usrs[i].email = email}

-----------------------------------------------------------------------------
(* create_user *)

CountInsert == Cardinality({p \in Procs : cpc[p] = "insert"})

CreateCall(a, res, dup, added) ==
    [NoCall EXCEPT !.op = "create_user", !.res = res,
                   !.dup = dup, !.added = added]

DuplicateMessage == "Username or email already exists"

\* The row INSERT INTO users adds: id by AUTOINCREMENT, is_active DEFAULT 1
NewUserRow(usrs, a, salt) ==
    [id |-> Len(usrs) + 1, username |-> a.username, email |-> a.email,
     password_hash |-> hash_password(a.password, salt), salt |-> salt,
     is_active |-> TRUE]

\* (the table declared without UNIQUE)
UniqueOk_Mut(usrs, a) == TRUE

\* Whether the UNIQUE constraints on username and email admit the row
UniqueOk(usrs, a) ==
    \A i \in 1..Len(usrs) :
        usrs[i].username # a.username /\ usrs[i].email # a.email

CreatedResult(user_id) ==
    [success |-> TRUE, message |-> "User created successfully",
     token |-> NoToken, user |-> NoUser, user_id |-> user_id]

\* SELECT id FROM users WHERE username = ? OR email = ?  and the early return
CreateUserCheck(p, username, email, password) ==
    LET a == [username |-> username, email |-> email, password |-> password]
    IN /\ cpc[p] = "idle"
       /\ Len(users) + CountInsert < MaxUsers
       /\ IF Matching(users, username, email) # {}
            THEN /\ last' = CreateCall(a, Failure(DuplicateMessage),
                                       TRUE, FALSE)
                 /\ UNCHANGED <<cpc, cargs>>
            ELSE /\ cpc' = [cpc EXCEPT ![p] = "insert"]
                 /\ cargs' = [cargs EXCEPT ![p] = a]
                 /\ UNCHANGED last
       /\ UNCHANGED <<now, users, sessions, loggedOut, issued>>

\* hash_password, INSERT INTO users, commit; an IntegrityError is caught by
\* "except Exception", rolled back and returned as a failure.
CreateUserInsert(p, salt) ==
    /\ cpc[p] = "insert"
    /\ cpc' = [cpc EXCEPT ![p] = "idle"]
    /\ IF UniqueOk(users, cargs[p])
         THEN /\ users' = Append(users, NewUserRow(users, cargs[p], salt))
              /\ last' = CreateCall(cargs[p], CreatedResult(Len(users) + 1),
                                    FALSE, TRUE)
         ELSE /\ users' = users
              /\ last' = CreateCall(cargs[p],
                     Failure("Error creating user: UNIQUE constraint failed"),
                     TRUE, FALSE)
    /\ UNCHANGED <<now, sessions, cargs, loggedOut, issued>>

\* One create_user call with no other request running beside it
\* (the INSERT made before the SELECT, as INSERT OR REPLACE)
CreateUser_Mut(username, email, password, salt) ==
    LET a == [username |-> username, email |-> email, password |-> password]
    IN /\ Len(users) < MaxUsers
       /\ IF Matching(users, username, email) # {}
            THEN /\ last' = CreateCall(a, Failure(DuplicateMessage),
                                       TRUE, FALSE)
                 /\ users' = [i \in 1..Len(users) |->
                                IF i \in Matching(users, username, email)
                                THEN [NewUserRow(users, a, salt)
                                         EXCEPT !.id = users[i].id]
                                ELSE users[i]]
            ELSE /\ users' = Append(users, NewUserRow(users, a, salt))
                 /\ last' = CreateCall(a, CreatedResult(Len(users) + 1),
                                       FALSE, TRUE)
       /\ UNCHANGED <<now, sessions, cpc, cargs, loggedOut, issued>>

CreateUser(username, email, password, salt) ==
    LET a == [username |-> username, email |-> email, password |-> password]
    IN /\ Len(users) < MaxUsers
       /\ IF Matching(users, username, email) # {}
            THEN /\ last' = CreateCall(a, Failure(DuplicateMessage),
                                       TRUE, FALSE)
                 /\ users' = users
            ELSE /\ users' = Append(users, NewUserRow(users, a, salt))
                 /\ last' = CreateCall(a, CreatedResult(Len(users) + 1),
                                       FALSE, TRUE)
       /\ UNCHANGED <<now, sessions, cpc, cargs, loggedOut, issued>>

-----------------------------------------------------------------------------
(* authenticate_user *)

\* Lines 110-154: the result for the fetched row (NoRow: fetchone() is None);
\* tExp, tIat are the clock readings of the two utcnow() calls of the payload.
AuthResult(usrs, row, password, tExp, tIat) ==
    IF row = NoRow THEN Failure(NoUserMessage)
    ELSE IF ~usrs[row].is_active THEN Failure(DeactivatedMessage)
    ELSE IF ~verify_password(password, usrs[row].password_hash,
                             usrs[row].salt)
        THEN Failure(WrongPasswordMessage)
    ELSE [success |-> TRUE, message |-> "Authentication successful",
          token |-> JwtEncode(PwPayload(usrs[row].id, usrs[row].username,
                                        usrs[row].email, tExp, tIat),
                              JWT_SECRET),
          user |-> [id |-> <<"int", usrs[row].id>>,
                    username |-> usrs[row].username,
                    email |-> usrs[row].email],
          user_id |-> 0]

\* INSERT INTO user_sessions (user_id, token_hash, expires_at)
NewSessionRow(sess, user_id, token, tSess) ==
    [id |-> Len(sess) + 1, user_id |-> user_id,
     token_hash |-> Sha256(token),
     expires_at |-> tSess + Hours(JWT_EXPIRATION_HOURS),
     is_active |-> TRUE]

\* Active accounts the credentials (identifier, password) belong to
Owners(usrs, identifier, password) ==
    {i \in Matching(usrs, identifier, identifier) :
        /\ usrs[i].is_active
        /\ verify_password(password, usrs[i].password_hash, usrs[i].salt)}

\* Rows fetchone() can return: the query has no ORDER BY
Fetched(usrs, identifier) ==
    IF Matching(usrs, identifier, identifier) = {}
      THEN {NoRow}
      ELSE Matching(usrs, identifier, identifier)

\* The whole call; d1, d2 are the ticks passing between its three utcnow()
\* readings.
AuthenticateUser(identifier, password, d1, d2) ==
    \E row \in Fetched(users, identifier) :
      LET res == AuthResult(users, row, password, now, now + d1)
          tSess == now + d1 + d2
      IN /\ last' = [NoCall EXCEPT
                       !.op = "authenticate_user", !.res = res,
                       !.identifier = identifier, !.password = password,
                       !.row = row,
                       !.owners = Owners(users, identifier, password)]
         /\ IF res.success
              THEN /\ Len(sessions) < MaxSessions
                   /\ InHorizon(tSess + Hours(JWT_EXPIRATION_HOURS))
                   /\ now' = tSess
                   /\ sessions' = Append(sessions,
                          NewSessionRow(sessions, users[row].id, res.token,
                                        tSess))
                   /\ issued' = issued \cup {res.token}
              ELSE /\ d1 = 0 /\ d2 = 0
                   /\ UNCHANGED <<now, sessions, issued>>
         /\ UNCHANGED <<users, cpc, cargs, loggedOut>>

-----------------------------------------------------------------------------
(* verify_token *)

\* (the SELECT without "AND us.is_active = 1")
SessionRows_Mut(sess, usrs, token, t) ==
    {i \in 1..Len(sess) :
        /\ sess[i].token_hash = Sha256(token)
        /\ sess[i].expires_at > t
        /\ \E u \in 1..Len(usrs) : usrs[u].id = sess[i].user_id}

\* (the SELECT with "AND u.is_active = 1" added)
SessionRows_Mut2(sess, usrs, token, t) ==
    {i \in 1..Len(sess) :
        /\ sess[i].token_hash = Sha256(token)
        /\ sess[i].is_active
        /\ sess[i].expires_at > t
        /\ \E u \in 1..Len(usrs) :
              usrs[u].id = sess[i].user_id /\ usrs[u].is_active}

\* The SELECT of lines 171-176: a session row with this digest, active and
\* not past expires_at, joined to its user
SessionRows(sess, usrs, token, t) ==
    {i \in 1..Len(sess) :
        /\ sess[i].token_hash = Sha256(token)
        /\ sess[i].is_active
        /\ sess[i].expires_at > t
        /\ \E u \in 1..Len(usrs) : usrs[u].id = sess[i].user_id}

\* (without the except clause for jwt.ExpiredSignatureError)
verify_token_Mut(sess, usrs, token, t) ==
    LET d == JwtDecode(token, JWT_SECRET, "", "", t)
    IN IF d # "ok" THEN Failure("Invalid token")
       ELSE IF SessionRows(sess, usrs, token, t) = {}
           THEN Failure("Invalid or expired token")
       ELSE [success |-> TRUE, message |-> "", token |-> NoToken,
             user |-> [id |-> token.user_id, username |-> token.username,
                       email |-> token.email],
             user_id |-> 0]

verify_token(sess, usrs, token, t) ==
    LET d == JwtDecode(token, JWT_SECRET, "", "", t)
    IN IF d = "ExpiredSignatureError" THEN Failure("Token has expired")
       ELSE IF d # "ok" THEN Failure("Invalid token")
       ELSE IF SessionRows(sess, usrs, token, t) = {}
           THEN Failure("Invalid or expired token")
       ELSE [success |-> TRUE, message |-> "", token |-> NoToken,
             user |-> [id |-> token.user_id, username |-> token.username,
                       email |-> token.email],
             user_id |-> 0]

\* A copy of a token signed by somebody who does not hold the secret
Forge(token) == [token EXCEPT !.key = "forged"]

\* Tokens a client can present: issued ones, forgeries of them, and a token
\* of the OAuth path
TokenInputs ==
    issued \cup {Forge(t) : t \in issued} \cup {create_jwt_token(<<"str", 1>>, 0)}

VerifyToken(token) ==
    /\ last' = [NoCall EXCEPT
                  !.op = "verify_token",
                  !.res = verify_token(sessions, users, token, now),
                  !.token = token,
                  !.revoked = token \in loggedOut]
    /\ UNCHANGED <<now, users, sessions, cpc, cargs, loggedOut, issued>>

-----------------------------------------------------------------------------
(* logout_user *)

\* (SET is_active = 0 for every session of the account the token belongs to)
Deactivated_Mut3(sess, token) ==
    [i \in 1..Len(sess) |->
        IF \E j \in 1..Len(sess) : /\ sess[j].token_hash = Sha256(token)
                                    /\ sess[j].user_id = sess[i].user_id
          THEN [sess[i] EXCEPT !.is_active = FALSE]
          ELSE sess[i]]

\* (DELETE FROM user_sessions WHERE token_hash = ? AND is_active = 1)
Deactivated_Mut2(sess, token) ==
    SelectSeq(sess, LAMBDA r : ~(r.token_hash = Sha256(token) /\ r.is_active))

\* (SET is_active = (token_hash <> ?) without a WHERE clause)
Deactivated_Mut4(sess, token) ==
    [i \in 1..Len(sess) |->
        [sess[i] EXCEPT !.is_active = sess[i].token_hash # Sha256(token)]]

\* (SET is_active = 1 - is_active WHERE token_hash = ?)
Deactivated_Mut(sess, token) ==
    [i \in 1..Len(sess) |->
        IF sess[i].token_hash = Sha256(token)
          THEN [sess[i] EXCEPT !.is_active = ~@]
          ELSE sess[i]]

\* UPDATE user_sessions SET is_active = 0 WHERE token_hash = ? AND is_active = 1
Deactivated(sess, token) ==
    [i \in 1..Len(sess) |->
        IF sess[i].token_hash = Sha256(token) /\ sess[i].is_active
          THEN [sess[i] EXCEPT !.is_active = FALSE]
          ELSE sess[i]]

LogoutUser(token) ==
    /\ sessions' = Deactivated(sessions, token)
    /\ loggedOut' = loggedOut \cup {token}
    /\ last' = [NoCall EXCEPT
                  !.op = "logout_user", !.token = token,
                  !.revoked = token \in loggedOut,
                  !.res = [NoResult EXCEPT
                             !.success = TRUE,
                             !.message = "Logged out successfully"]]
    /\ UNCHANGED <<now, users, cpc, cargs, issued>>

-----------------------------------------------------------------------------
(* Environment *)

\* Time passes: one tick, or a whole token lifetime
Advance(d) ==
    /\ InHorizon(now + d)
    /\ now' = now + d
    /\ last' = NoCall
    /\ UNCHANGED <<users, sessions, cpc, cargs, loggedOut, issued>>

\* An operator clears users.is_active of an account (no handler sets it)
DeactivateAccount(i) ==
    /\ users[i].is_active
    /\ users' = [users EXCEPT ![i].is_active = FALSE]
    /\ last' = NoCall
    /\ UNCHANGED <<now, sessions, cpc, cargs, loggedOut, issued>>

-----------------------------------------------------------------------------
(* Encryption of secrets (backend/encryption.py)                           *)
(*                                                                         *)
(* Byte strings are sequences of symbolic bytes <<tag, n, i, sub>>.        *)
(* Random generators return values never returned before; PBKDF2, AES-CBC  *)
(* and HMAC are ideal: a key is a function of password and salt only, and  *)
(* a tag verifies only for the body it was computed for, under the same    *)
(* key.  Encodings, paddings and slicings are computed as the code does.   *)

VARIABLES
    master,      \* ENCRYPTION_KEY of the running process
    drawn,       \* number of values the random generator has returned
    fernetLog,   \* the Fernet encryptions performed so far
    vault,       \* encrypt_value calls that returned: plaintext and blob
    lastDec      \* the decrypt_value call that returned last

vaultVars == <<master, drawn, fernetLog, vault, lastDec>>

MaxEnc == 2                  \* encrypt_value calls

EnvEncryptionKey == "k1"     \* os.getenv("ENCRYPTION_KEY")
Masters == {"k1", "k2"}      \* values of ENCRYPTION_KEY across restarts
\* Strings are sequences of code points: "" and "ea" with e acute
Plaintexts == {<< >>, <<233, 97>>}

Take(bs, k) == IF k >= Len(bs) THEN bs ELSE SubSeq(bs, 1, k)
Drop(bs, k) == IF k >= Len(bs) THEN << >> ELSE SubSeq(bs, k + 1, Len(bs))

\* secrets.token_bytes(k), os.urandom(k): the d-th value drawn
RandomBytes(d, k) == [i \in 1..k |-> <<"rnd", d, i, << >> >>] \o << >>

\* str.encode() / bytes.decode(): UTF-8 of code points below 2048
RECURSIVE Utf8Encode(_)
Utf8Encode(s) ==
    IF s = << >> THEN << >>
    ELSE LET c == Head(s)
         IN (IF c < 128 THEN <<c>>
             ELSE <<192 + (c \div 64), 128 + (c % 64)>>)
            \o Utf8Encode(Tail(s))

RECURSIVE Utf8Decode(_)
Utf8Decode(bs) ==
    IF bs = << >> THEN [ok |-> TRUE, value |-> << >>]
    ELSE LET b == Head(bs)
             two == /\ b >= 194 /\ b < 224 /\ Len(bs) >= 2
                    /\ bs[2] >= 128 /\ bs[2] < 192
             rest == Utf8Decode(IF b < 128 THEN Tail(bs) ELSE Drop(bs, 2))
             c == IF b < 128 THEN b ELSE (b - 192) * 64 + (bs[2] - 128)
         IN IF (b < 128 \/ two) /\ rest.ok
            THEN [ok |-> TRUE, value |-> <<c>> \o rest.value]
            ELSE [ok |-> FALSE, value |-> << >>]

(* base64: a character carries the low bits of one byte and the high bits  *)
(* of the next: B64Char(pos, x, y) is the character at position pos of a   *)
(* group of four, made of bits of bytes x and y.                           *)
Zero == <<"zero", 0, 0, << >> >>          \* bits that carry no data
PadChar == <<"=", 0, 0, << >> >>
JunkChar == <<"junk", 0, 0, << >> >>      \* a byte outside the alphabet
Altered == <<"altered", 0, 0, << >> >>    \* bits or a byte changed
Garbage == <<"garbage", 0, 0, << >> >>    \* a decoded byte never encoded

B64Char(pos, x, y) == <<"b64", pos, 0, <<x, y>> >>

\* base64.urlsafe_b64encode
B64Encode(bs) ==
    LET n == Len(bs)
        at(i) == IF i <= n THEN bs[i] ELSE Zero
    IN << >> \o [k \in 1..(4 * ((n + 2) \div 3)) |->
          LET i1 == 3 * ((k - 1) \div 4) + 1
              slot == ((k - 1) % 4) + 1
          IN CASE slot = 1 -> B64Char(1, bs[i1], bs[i1])
               [] slot = 2 -> B64Char(2, bs[i1], at(i1 + 1))
               [] slot = 3 -> IF i1 + 1 > n THEN PadChar
                              ELSE B64Char(3, bs[i1 + 1], at(i1 + 2))
               [] slot = 4 -> IF i1 + 2 > n THEN PadChar
                              ELSE B64Char(4, bs[i1 + 2], bs[i1 + 2])]

IsPad(c) == c[1] = "="
IsData(c) == c[1] \notin {"=", "junk"}

\* The byte completed by data character c, the quad-th after prev
B64Join(prev, c, quad) ==
    LET fits == /\ prev[1] = "b64" /\ c[1] = "b64"
                /\ prev[2] = quad /\ c[2] = quad + 1
                /\ prev[4][2] = c[4][1]
                /\ c[4][1][1] \notin {"altered", "zero"}
                /\ quad = 1 => prev[4][1] = prev[4][2]
                /\ quad = 3 => c[4][2] = c[4][1]
    IN IF fits THEN c[4][1] ELSE Garbage

\* binascii.a2b_base64 without strict mode: characters outside the alphabet
\* are skipped; a padding character that completes a group of four ends the
\* input, whatever follows; the unused low bits of the last data character
\* are not looked at; a group left incomplete at the end is an error.
\* Where the scan stops, or 0 if it reads to the end
B64Stop(cs) ==
    LET quad(i) == Cardinality({j \in 1..(i - 1) : IsData(cs[j])}) % 4
        \* padding characters read since the last data character
        pads(i) == Cardinality({j \in 1..i :
                      IsPad(cs[j]) /\ \A k \in j..i : ~IsData(cs[k])})
        stops == {i \in 1..Len(cs) :
                    IsPad(cs[i]) /\ quad(i) >= 2 /\ quad(i) + pads(i) >= 4}
    IN IF stops = {} THEN 0
       ELSE CHOOSE i \in stops : \A k \in stops : i <= k

\* base64.urlsafe_b64decode
B64Decode(cs) ==
    LET stop == B64Stop(cs)
        data == SelectSeq(IF stop = 0 THEN cs ELSE Take(cs, stop - 1), IsData)
        rem == Len(data) % 4
        n == 3 * (Len(data) \div 4) + (IF rem >= 2 THEN rem - 1 ELSE 0)
    IN [ok |-> stop # 0 \/ rem = 0,
        bytes |-> << >> \o [k \in 1..n |->
                     LET m == 4 * ((k - 1) \div 3) + ((k - 1) % 3) + 2
                     IN B64Join(data[m - 1], data[m], ((k - 1) % 3) + 1)]]

(* Fernet (cryptography.fernet): a token is base64 of                      *)
(*   version (1) | timestamp (8) | iv (16) | AES-CBC ciphertext | HMAC (32) *)

\* PKCS7 padding to blocks of 16 bytes
Pkcs7Pad(data) ==
    LET k == 16 - (Len(data) % 16) IN data \o [i \in 1..k |-> k]

Pkcs7Unpad(padded) == Take(padded, Len(padded) - padded[Len(padded)])

\* derive_key: PBKDF2-HMAC-SHA256 of the master secret under the salt
derive_key(password, salt) == [password |-> password, salt |-> salt]

Version == <<"ver", 128, 1, << >> >>

\* What Fernet(key).encrypt(data) adds to the log: iv is the draw of
\* os.urandom(16), ts is int(time.time())
FernetEntry(key, data, iv, ts) ==
    [key |-> key, iv |-> iv, ts |-> ts, padded |-> Pkcs7Pad(data)]

\* The signed part of the token of encryption n; its ciphertext bytes are
\* determined by key, iv and padded plaintext of entry n
FernetBody(log, n) ==
    <<Version>> \o [i \in 1..8 |-> <<"ts", log[n].ts, i, << >> >>]
                \o RandomBytes(log[n].iv, 16)
                \o [i \in 1..Len(log[n].padded) |-> <<"ct", n, i, << >> >>]

\* HMAC-SHA256 of FernetBody(log, n) under the key of entry n
FernetMac(n) == [i \in 1..32 |-> <<"mac", n, i, << >> >>]

FernetToken(log, n) == B64Encode(FernetBody(log, n) \o FernetMac(n))

\* Fernet(key).decrypt(token)
FernetDecrypt(key, token, log) ==
    LET dec == B64Decode(token)
        data == dec.bytes
        hits == {n \in 1..Len(log) :
                    /\ log[n].key = key
                    /\ data = FernetBody(log, n) \o FernetMac(n)}
        InvalidToken == [ok |-> FALSE, data |-> << >>]
    IN IF ~dec.ok \/ Len(data) = 0 THEN InvalidToken
       ELSE IF data[1] # Version \/ Len(data) < 9 THEN InvalidToken
       ELSE IF hits = {} THEN InvalidToken
       ELSE [ok |-> TRUE,
             data |-> Pkcs7Unpad(log[CHOOSE n \in hits : TRUE].padded)]

\* salt = secrets.token_bytes(16)
NewSalt_Mut(d) == RandomBytes(0, 16)

NewSalt(d) == RandomBytes(d, 16)

\* encrypted = combined[16:]
TokenOf_Mut(combined) == Drop(combined, 17)

TokenOf(combined) == Drop(combined, 16)

\* salt = combined[:16]
SaltOf(combined) == Take(combined, 16)

\* (encrypt_value without "if not value: return value")
encrypt_value_Mut(value, key, log, d, ts) ==
    LET salt == NewSalt(d + 1)
        k == derive_key(key, salt)
        log2 == Append(log, FernetEntry(k, Utf8Encode(value), d + 2, ts))
        encrypted == FernetToken(log2, Len(log2))
        combined == salt \o encrypted
    IN [blob |-> B64Encode(combined), log |-> log2, drawn |-> d + 2]

\* encrypt_value(value): the blob, and the log and draw count it leaves
encrypt_value(value, key, log, d, ts) ==
    IF value = << >> THEN [blob |-> value, log |-> log, drawn |-> d]
    ELSE LET salt == NewSalt(d + 1)
             k == derive_key(key, salt)
             log2 == Append(log, FernetEntry(k, Utf8Encode(value), d + 2, ts))
             encrypted == FernetToken(log2, Len(log2))
             combined == salt \o encrypted
         IN [blob |-> B64Encode(combined), log |-> log2, drawn |-> d + 2]

ValueError == [ok |-> FALSE, value |-> << >>]

\* decrypt_value(encrypted_value)
decrypt_value(encrypted_value, key, log) ==
    IF encrypted_value = << >> THEN [ok |-> TRUE, value |-> encrypted_value]
    ELSE LET dec == B64Decode(encrypted_value)
             salt == SaltOf(dec.bytes)
             encrypted == TokenOf(dec.bytes)
             f == FernetDecrypt(derive_key(key, salt), encrypted, log)
             s == Utf8Decode(f.data)
         IN IF dec.ok /\ f.ok /\ s.ok THEN [ok |-> TRUE, value |-> s.value]
            ELSE ValueError

\* Byte b of a blob after a change: bits of a base64 character of the
\* embedded token, the character replaced, or another byte value
AlterByte(b, how) ==
    IF b[1] # "b64" THEN Altered
    ELSE CASE how = "hi" -> B64Char(b[2], Altered, b[4][2])
           [] how = "lo" -> B64Char(b[2], b[4][1], Altered)
           [] how = "both" -> B64Char(b[2], Altered, Altered)
           [] how = "junk" -> JunkChar
           [] how = "pad" -> PadChar

Hows == {"hi", "lo", "both", "junk", "pad"}

\* The blob a caller passes to decrypt_value
Tampered(blob, kind, pos, how) ==
    LET combined == B64Decode(blob).bytes
    IN CASE kind = "intact" -> blob
         [] kind = "truncText" -> Take(blob, pos)
         [] kind = "truncBytes" -> B64Encode(Take(combined, pos))
         [] kind = "alter" ->
              B64Encode([combined EXCEPT ![pos] = AlterByte(@, how)])

NoDec == [ix |-> 0, kind |-> "", pos |-> 0, how |-> "",
          res |-> ValueError]

EncryptValue(value) ==
    /\ lastDec = NoDec
    /\ Len(vault) < MaxEnc
    /\ \E r \in {encrypt_value(value, master, fernetLog, drawn,
                               ToTimestamp(now))} :
          /\ vault' = Append(vault, [pt |-> value, blob |-> r.blob,
                                     master |-> master])
          /\ fernetLog' = r.log
          /\ drawn' = r.drawn
    /\ UNCHANGED <<master, lastDec>>

DecryptValue(ix, kind, pos, how) ==
    /\ lastDec' = [ix |-> ix, kind |-> kind, pos |-> pos, how |-> how,
                   res |-> decrypt_value(
                               Tampered(vault[ix].blob, kind, pos, how),
                               master, fernetLog)]
    /\ UNCHANGED <<master, drawn, fernetLog, vault>>

\* The caller takes the result of decrypt_value; calls are made one at a
\* time
Return ==
    /\ lastDec # NoDec
    /\ lastDec' = NoDec
    /\ UNCHANGED <<master, drawn, fernetLog, vault>>

\* The process is started again with another ENCRYPTION_KEY
Restart(m) ==
    /\ lastDec = NoDec
    /\ m # master
    /\ master' = m
    /\ UNCHANGED <<drawn, fernetLog, vault, lastDec>>

VaultInit ==
    /\ master = EnvEncryptionKey
    /\ drawn = 0
    /\ fernetLog = << >>
    /\ vault = << >>
    /\ lastDec = NoDec

BlobBytes(ix) == B64Decode(vault[ix].blob).bytes

\* decrypt_value is called on a stored blob as it is, cut after k characters
\* or k bytes, or with byte i changed
NextVault ==
    \/ Return
    \/ \E s \in Plaintexts : EncryptValue(s)
    \/ \E m \in Masters : Restart(m)
    \/ /\ lastDec = NoDec
       /\ \E ix \in 1..Len(vault) : DecryptValue(ix, "intact", 0, "none")
    \/ /\ lastDec = NoDec
       /\ \E ix \in 1..Len(vault) : \E k \in 1..(Len(vault[ix].blob) - 1) :
             DecryptValue(ix, "truncText", k, "none")
    \/ /\ lastDec = NoDec
       /\ \E ix \in 1..Len(vault) : \E k \in 1..(Len(BlobBytes(ix)) - 1) :
             DecryptValue(ix, "truncBytes", k, "none")
    \/ /\ lastDec = NoDec
       /\ \E ix \in 1..Len(vault) :
             \E bytes \in {BlobBytes(ix)} :
                \E i \in 1..Len(bytes), how \in Hows :
                   /\ bytes[i][1] = "b64" \/ how = "both"
                   /\ DecryptValue(ix, "alter", i, how)

-----------------------------------------------------------------------------
(* OAuth user records (backend/db.py)                                      *)

VARIABLES
    memoryDb,    \* USE_MEMORY_DB
    coll,        \* the users collection, in insertion order
    tpc,         \* create_or_update_user: position of each running call
    targs,       \* create_or_update_user: arguments and locals of each call
    oauthRes     \* create_or_update_user: what each caller got last

oaVars == <<memoryDb, coll, tpc, targs, oauthRes>>

NumTasks == 2                \* concurrent oauth_callback requests

Tasks == 1..NumTasks
GithubIds == {1, 2}          \* github_data["id"]
Profiles == {[email |-> "e1", name |-> "n1", avatar_url |-> "u1",
              login |-> "l1"],
             [email |-> "e2", name |-> "n2", avatar_url |-> "u2",
              login |-> "l2"]}
AccessTokens == {<<233, 97>>}

NoDocId == 0                 \* no document: find_one returned None

\* github_id = str(github_data["id"])
GithubIdStr(n) == <<"str", n>>

NoUpsert == [github_id |-> GithubIdStr(0), id |-> NoDocId]

NoUpsertArgs ==
    [github_id |-> GithubIdStr(0),
     profile |-> [email |-> "", name |-> "", avatar_url |-> "", login |-> ""],
     secret |-> << >>, existing |-> NoDocId]

\* find_one({"github_id": ...}): positions of the documents that match
FindByGithubId(c, github_id) ==
    {i \in 1..Len(c) : c[i].github_id = github_id}

\* find_one({"_id": ...})
FindById(c, id) == {i \in 1..Len(c) : c[i]._id = id}

\* str(ObjectId()): an id no document has
NewObjectId(c) == Len(c) + 1

\* (created_at written by the update as well)
UpdateOne_Mut(c, id, github_id, profile, blob, t) ==
    IF FindById(c, id) = {} THEN c
    ELSE LET i == CHOOSE k \in FindById(c, id) :
                      \A m \in FindById(c, id) : k <= m
         IN [c EXCEPT ![i] = [@ EXCEPT !.github_id = github_id,
                                       !.email = profile.email,
                                       !.name = profile.name,
                                       !.avatar_url = profile.avatar_url,
                                       !.username = profile.login,
                                       !.access_token = blob,
                                       !.created_at = t,
                                       !.updated_at = t,
                                       !.last_login = t,
                                       !.is_active = TRUE]]

\* update_one({"_id": id}, {"$set": user_data}) on the first match
UpdateOne(c, id, github_id, profile, blob, t) ==
    IF FindById(c, id) = {} THEN c
    ELSE LET i == CHOOSE k \in FindById(c, id) :
                      \A m \in FindById(c, id) : k <= m
         IN [c EXCEPT ![i] = [@ EXCEPT !.github_id = github_id,
                                       !.email = profile.email,
                                       !.name = profile.name,
                                       !.avatar_url = profile.avatar_url,
                                       !.username = profile.login,
                                       !.access_token = blob,
                                       !.updated_at = t,
                                       !.last_login = t,
                                       !.is_active = TRUE]]

\* insert_one(user_data) with the new _id and created_at
InsertOne(c, id, github_id, profile, blob, t) ==
    Append(c, [_id |-> id, github_id |-> github_id,
               email |-> profile.email, name |-> profile.name,
               avatar_url |-> profile.avatar_url,
               username |-> profile.login, access_token |-> blob,
               created_at |-> t, updated_at |-> t, last_login |-> t,
               is_active |-> TRUE])

\* MongoDB: existing_user = await get_user_by_github_id(github_id).  The
\* collection has no unique index; which match comes back is not fixed
UpsertFind(t, gid, profile, secret) ==
    /\ ~memoryDb
    /\ tpc[t] = "idle"
    /\ Len(vault) + Cardinality({u \in Tasks : tpc[u] # "idle"}) < MaxEnc
    /\ \E e \in IF FindByGithubId(coll, GithubIdStr(gid)) = {} THEN {0}
                ELSE FindByGithubId(coll, GithubIdStr(gid)) :
          targs' = [targs EXCEPT ![t] =
                      [github_id |-> GithubIdStr(gid), profile |-> profile,
                       secret |-> secret,
                       existing |-> IF e = 0 THEN NoDocId ELSE coll[e]._id]]
    /\ tpc' = [tpc EXCEPT ![t] = "found"]
    /\ UNCHANGED <<memoryDb, coll, oauthRes, vaultVars>>

\* MongoDB: user_data is built, then update_one or insert_one is awaited
UpsertWrite(t) ==
    /\ ~memoryDb
    /\ tpc[t] = "found"
    /\ \E r \in {encrypt_value(targs[t].secret, master, fernetLog, drawn,
                               ToTimestamp(now))} :
          /\ vault' = Append(vault, [pt |-> targs[t].secret,
                                     blob |-> r.blob, master |-> master])
          /\ fernetLog' = r.log
          /\ drawn' = r.drawn
          /\ IF targs[t].existing # NoDocId
             THEN /\ coll' = UpdateOne(coll, targs[t].existing,
                                       targs[t].github_id, targs[t].profile,
                                       r.blob, now)
                  /\ tpc' = [tpc EXCEPT ![t] = "updated"]
                  /\ UNCHANGED oauthRes
             ELSE /\ coll' = InsertOne(coll, NewObjectId(coll),
                                       targs[t].github_id, targs[t].profile,
                                       r.blob, now)
                  /\ tpc' = [tpc EXCEPT ![t] = "idle"]
                  /\ oauthRes' = [oauthRes EXCEPT ![t] =
                                    [github_id |-> targs[t].github_id,
                                     id |-> NewObjectId(coll)]]
    /\ UNCHANGED <<memoryDb, targs, master, lastDec>>

\* MongoDB: user = await get_user_by_id(existing_user["_id"]); return user
UpsertReturn(t) ==
    /\ ~memoryDb
    /\ tpc[t] = "updated"
    /\ oauthRes' = [oauthRes EXCEPT ![t] =
                      [github_id |-> targs[t].github_id,
                       id |-> IF FindById(coll, targs[t].existing) = {}
                              THEN NoDocId ELSE targs[t].existing]]
    /\ tpc' = [tpc EXCEPT ![t] = "idle"]
    /\ UNCHANGED <<memoryDb, coll, targs, vaultVars>>

\* In-memory collection: no await of MockCollection suspends, so the whole
\* create_or_update_user runs without another call in between
UpsertMemory(t, gid, profile, secret) ==
    /\ memoryDb
    /\ Len(vault) < MaxEnc
    /\ \E r \in {encrypt_value(secret, master, fernetLog, drawn,
                               ToTimestamp(now))} :
          LET github_id == GithubIdStr(gid)
              found == FindByGithubId(coll, github_id)
              existing == IF found = {} THEN NoDocId
                          ELSE coll[CHOOSE k \in found :
                                       \A m \in found : k <= m]._id
              id == IF existing # NoDocId THEN existing
                    ELSE NewObjectId(coll)
          IN /\ vault' = Append(vault, [pt |-> secret, blob |-> r.blob,
                                        master |-> master])
             /\ fernetLog' = r.log
             /\ drawn' = r.drawn
             /\ coll' = IF existing # NoDocId
                        THEN UpdateOne(coll, existing, github_id, profile,
                                       r.blob, now)
                        ELSE InsertOne(coll, id, github_id, profile,
                                       r.blob, now)
             /\ oauthRes' = [oauthRes EXCEPT ![t] =
                               [github_id |-> github_id, id |-> id]]
    /\ UNCHANGED <<memoryDb, tpc, targs, master, lastDec>>

\* An operator clears is_active of a user document (no handler does)
DeactivateUser(i) ==
    /\ coll[i].is_active
    /\ coll' = [coll EXCEPT ![i].is_active = FALSE]
    /\ UNCHANGED <<memoryDb, tpc, targs, oauthRes, vaultVars>>

OAuthInit ==
    /\ coll = << >>
    /\ tpc = [t \in Tasks |-> "idle"]
    /\ targs = [t \in Tasks |-> NoUpsertArgs]
    /\ oauthRes = [t \in Tasks |-> NoUpsert]

NextOAuth ==
    \/ \E t \in Tasks, gid \in GithubIds, p \in Profiles,
          s \in AccessTokens : UpsertFind(t, gid, p, s)
    \/ \E t \in Tasks : UpsertWrite(t)
    \/ \E t \in Tasks : UpsertReturn(t)
    \/ \E t \in Tasks, gid \in GithubIds, p \in Profiles,
          s \in AccessTokens : UpsertMemory(t, gid, p, s)

-----------------------------------------------------------------------------
(* OAuth tokens and the request boundaries                                 *)
(* (backend/auth_oauth.py, backend/logic/api.py)                           *)

SubjectIds == {<<"str", 1>>, <<"str", 2>>}    \* values of user["_id"]

\* How long ago a presented token was issued: just now, one tick before
\* the end of its lifetime, a whole lifetime ago
Ages == {0, Days(JWT_EXPIRATION_DAYS) - 1, Days(JWT_EXPIRATION_DAYS)}

\* raise HTTPException(status_code, detail)
HttpError(status, detail) ==
    [ok |-> FALSE, status |-> status, detail |-> detail,
     payload |-> NoToken, user_id |-> <<"none", 0>>]

\* (jwt.decode called as verify_token calls it, without issuer and audience)
verify_jwt_token_Mut(token, t) ==
    LET d == JwtDecode(token, EnvJwtSecret, "", "", t)
    IN IF d = "ok"
         THEN [ok |-> TRUE, status |-> 200, detail |-> "",
               payload |-> token, user_id |-> <<"none", 0>>]
       ELSE IF d = "ExpiredSignatureError"
         THEN HttpError(401, "Token has expired")
       ELSE HttpError(401, "Invalid token")

\* verify_jwt_token(token) at time t: the payload, or the HTTPException of
\* the first matching except clause
verify_jwt_token(token, t) ==
    LET d == JwtDecode(token, EnvJwtSecret, "space-biology-engine",
                       "space-biology-frontend", t)
    IN IF d = "ok"
         THEN [ok |-> TRUE, status |-> 200, detail |-> "",
               payload |-> token, user_id |-> <<"none", 0>>]
       ELSE IF d = "ExpiredSignatureError"
         THEN HttpError(401, "Token has expired")
       ELSE IF d = "InvalidIssuerError"
         THEN HttpError(401, "Invalid token issuer")
       ELSE IF d = "InvalidAudienceError"
         THEN HttpError(401, "Invalid token audience")
       ELSE IF d = "InvalidSignatureError"
         THEN HttpError(401, "Invalid token: Signature verification failed")
       ELSE HttpError(401, "Invalid token: Token is missing a claim")

\* A request's credentials: the auth_token cookie and the Authorization
\* header, each possibly absent
NoCookie == [present |-> FALSE, token |-> NoToken]
Cookie(token) == [present |-> TRUE, token |-> token]
NoHeader == [present |-> FALSE, scheme |-> "", token |-> NoToken]
Header(scheme, token) == [present |-> TRUE, scheme |-> scheme, token |-> token]

\* A string that is no JWT (jwt.decode raises DecodeError)
NotAJwt == [NoToken EXCEPT !.key = "not a jwt"]

\* get_current_user_from_request(request)
get_current_user_from_request(cookie, header, t) ==
    LET fromHeader == header.present /\ header.scheme = "Bearer"
        found == cookie.present \/ fromHeader
        token == IF cookie.present THEN cookie.token ELSE header.token
        r == verify_jwt_token(token, t)
    IN IF ~found THEN HttpError(401, "Not authenticated")
       ELSE IF ~r.ok THEN r
       ELSE IF r.payload.user_id[1] = "none"
         THEN HttpError(401, "Invalid token payload")
       ELSE [r EXCEPT !.user_id = r.payload.user_id]

\* get_current_user(authorization) of logic/api.py: the header only;
\* "except Exception" replaces the detail of every failure of verify_token
get_current_user(sess, usrs, cookie, header, t) ==
    LET token == IF header.scheme = "Bearer" THEN header.token ELSE NotAJwt
        r == verify_token(sess, usrs, token, t)
    IN IF ~header.present
         THEN HttpError(401, "Authorization header required")
       ELSE IF ~r.success THEN HttpError(401, "Invalid token")
       ELSE [ok |-> TRUE, status |-> 200, detail |-> "",
             payload |-> token, user_id |-> r.user.id]

\* A token with some of its claims or its signature replaced
Variant(token, key, iss, aud) ==
    [token EXCEPT !.key = key, !.iss = iss, !.aud = aud]

JwtKeys == {EnvJwtSecret, "forged"}
Issuers == {"space-biology-engine", "evil"}
Audiences == {"space-biology-frontend", "other"}

\* Tokens a client can present at time t: tokens create_jwt_token returned
\* some time ago and altered copies of them, and tokens of the password path
JwtInputs(t) ==
    {Variant(create_jwt_token(id, t - age), k, i, a) :
        id \in SubjectIds, age \in Ages, k \in JwtKeys, i \in Issuers,
        a \in Audiences}
    \cup issued

\* The record of an OAuth-path call that returned last
JwtCall(op, token, cookie, header, res) ==
    [op |-> op, token |-> token, cookie |-> cookie, header |-> header,
     res |-> res]

\* One call of verify_jwt_token
VerifyJwtToken(token) ==
    /\ last = NoCall
    /\ last' = JwtCall("verify_jwt_token", token, NoCookie, NoHeader,
                       verify_jwt_token(token, now))
    /\ UNCHANGED <<now, users, sessions, cpc, cargs, loggedOut, issued>>

\* One request through the OAuth boundary
OAuthRequest(cookie, header) ==
    /\ last = NoCall
    /\ last' = JwtCall("get_current_user_from_request", NoToken, cookie,
                       header,
                       get_current_user_from_request(cookie, header, now))
    /\ UNCHANGED <<now, users, sessions, cpc, cargs, loggedOut, issued>>

\* One request through the password boundary
PasswordRequest(cookie, header) ==
    /\ last = NoCall
    /\ last' = JwtCall("get_current_user", NoToken, cookie, header,
                       get_current_user(sessions, users, cookie, header, now))
    /\ UNCHANGED <<now, users, sessions, cpc, cargs, loggedOut, issued>>

\* The response has been delivered
Respond ==
    /\ last # NoCall
    /\ last' = NoCall
    /\ UNCHANGED <<now, users, sessions, cpc, cargs, loggedOut, issued>>

-----------------------------------------------------------------------------
(* Process startup: the secrets the modules read when they are imported    *)
(* (logic/auth.py 11, encryption.py 13-16, auth_oauth.py 18-20, main.py)   *)

VARIABLES
    environ,     \* os.environ after load_dotenv()
    entry,       \* the module the server was started with
    boot,        \* how far the imports have come
    globals,     \* JWT_SECRET of logic.auth and auth_oauth, ENCRYPTION_KEY
    used         \* <<function, secret>> for every call made while serving

bootVars == <<environ, entry, boot, globals, used>>

NoneValue == "<None>"        \* os.getenv of a variable that is not set

\* main.py (uvicorn main:app) or the application of logic/api.py by itself
Entries == {"main", "logic.api"}

EnvValues(v) == {NoneValue, "", v}

\* os.getenv(name, default)
getenv(name, default) ==
    IF environ[name] = NoneValue THEN default ELSE environ[name]

\* not v, for v a string or None
Falsy(v) == v \in {NoneValue, ""}

NoGlobals == [auth |-> NoneValue, oauth |-> NoneValue, vault |-> NoneValue]

\* logic/api.py line 12 imports logic.auth, which reads JWT_SECRET with a
\* default; main.py goes on to import auth_oauth
ImportLogicAuth ==
    /\ boot = "start"
    /\ globals' = [globals EXCEPT
                     !.auth = getenv("JWT_SECRET", DefaultJwtSecret)]
    /\ boot' = IF entry = "main" THEN "logic.api" ELSE "serving"
    /\ UNCHANGED <<environ, entry, used>>

\* auth_oauth imports db, which imports encryption: lines 13-16
ImportEncryption ==
    /\ boot = "logic.api"
    /\ IF Falsy(getenv("ENCRYPTION_KEY", NoneValue))
         THEN boot' = "stopped" /\ UNCHANGED globals
         ELSE /\ boot' = "encryption"
              /\ globals' = [globals EXCEPT
                               !.vault = getenv("ENCRYPTION_KEY", NoneValue)]
    /\ UNCHANGED <<environ, entry, used>>

\* auth_oauth lines 18-20; main.py then builds the application
ImportAuthOAuth ==
    /\ boot = "encryption"
    /\ IF Falsy(getenv("JWT_SECRET", NoneValue))
         THEN boot' = "stopped" /\ UNCHANGED globals
         ELSE /\ boot' = "serving"
              /\ globals' = [globals EXCEPT
                               !.oauth = getenv("JWT_SECRET", NoneValue)]
    /\ UNCHANGED <<environ, entry, used>>

\* The functions a serving process can be asked to run, and the module
\* global each of them takes its secret from
PwFunctions == {"authenticate_user", "verify_token"}
OAuthFunctions == {"create_jwt_token", "verify_jwt_token"}
VaultFunctions == {"encrypt_value", "decrypt_value"}

Functions(e) ==
    IF e = "main" THEN PwFunctions \cup OAuthFunctions \cup VaultFunctions
    ELSE PwFunctions

SecretOf(f) ==
    IF f \in PwFunctions THEN globals.auth
    ELSE IF f \in OAuthFunctions THEN globals.oauth
    ELSE globals.vault

\* One call of f while serving
Call(f) ==
    /\ boot = "serving"
    /\ f \in Functions(entry)
    /\ used' = used \cup {<<f, SecretOf(f)>>}
    /\ UNCHANGED <<environ, entry, boot, globals>>

\* The process as the other specifications see it: started by main.py with
\* both secrets set
BootDone ==
    /\ environ = [JWT_SECRET |-> EnvJwtSecret,
                  ENCRYPTION_KEY |-> EnvEncryptionKey]
    /\ entry = "main"
    /\ boot = "serving"
    /\ globals = [auth |-> JWT_SECRET, oauth |-> EnvJwtSecret,
                  vault |-> EnvEncryptionKey]
    /\ used = {}

\* A process about to start, in any environment
BootStart ==
    /\ environ \in [JWT_SECRET : EnvValues(EnvJwtSecret),
                    ENCRYPTION_KEY : EnvValues(EnvEncryptionKey)]
    /\ entry \in Entries
    /\ boot = "start"
    /\ globals = NoGlobals
    /\ used = {}

BootNext ==
    \/ ImportLogicAuth
    \/ ImportEncryption
    \/ ImportAuthOAuth
    \/ \E f \in PwFunctions \cup OAuthFunctions \cup VaultFunctions : Call(f)

-----------------------------------------------------------------------------
(* OAuth endpoints (backend/auth_oauth.py 103-217)                         *)

VARIABLES
    jwts         \* tokens oauth_callback and /auth/refresh have returned

flowVars == <<jwts>>

MaxJwts == 3                 \* tokens returned

\* access_token of OAuthCallbackData: "" and "ea" with e acute
CallbackSecrets == {<< >>, <<233, 97>>}

\* user["_id"] of a document, as the string create_jwt_token is given
DocIdStr(id) == <<"str", id>>

\* jwt_token = create_jwt_token(user["_id"]) and the response; with user None
\* the subscript raises and the endpoint answers 500
CallbackIssue(id) ==
    IF id = NoDocId THEN UNCHANGED jwts
    ELSE jwts' = jwts \cup {create_jwt_token(DocIdStr(id), now)}

\* oauth_callback over MongoDB, in the steps of its create_or_update_user
CallbackFind(t, gid, profile, secret) ==
    /\ UpsertFind(t, gid, profile, secret)
    /\ UNCHANGED <<pwVars, bootVars, jwts>>

CallbackWrite(t) ==
    /\ Cardinality(jwts) < MaxJwts
    /\ UpsertWrite(t)
    /\ IF targs[t].existing = NoDocId
         THEN CallbackIssue(NewObjectId(coll))
         ELSE UNCHANGED jwts
    /\ UNCHANGED <<pwVars, bootVars>>

CallbackReturn(t) ==
    /\ Cardinality(jwts) < MaxJwts
    /\ UpsertReturn(t)
    /\ CallbackIssue(oauthRes'[t].id)
    /\ UNCHANGED <<pwVars, bootVars>>

\* oauth_callback over the in-memory collection
CallbackMemory(t, gid, profile, secret) ==
    /\ Cardinality(jwts) < MaxJwts
    /\ UpsertMemory(t, gid, profile, secret)
    /\ CallbackIssue(oauthRes'[t].id)
    /\ UNCHANGED <<pwVars, bootVars>>

\* What get_user_access_token returns: None, a string, or the ValueError
\* decrypt_value raises
NoSecret == [kind |-> "None", value |-> << >>]

\* (the stored field returned as it is)
get_user_access_token_Mut(c, id, key, log) ==
    IF FindById(c, id) = {} THEN NoSecret
    ELSE LET encrypted_token ==
                 c[CHOOSE k \in FindById(c, id) :
                      \A m \in FindById(c, id) : k <= m].access_token
         IN IF encrypted_token = << >> THEN NoSecret
            ELSE [kind |-> "str", value |-> encrypted_token]

\* get_user_access_token(user_id)
get_user_access_token(c, id, key, log) ==
    IF FindById(c, id) = {} THEN NoSecret
    ELSE LET encrypted_token ==
                 c[CHOOSE k \in FindById(c, id) :
                      \A m \in FindById(c, id) : k <= m].access_token
             r == decrypt_value(encrypted_token, key, log)
         IN IF encrypted_token = << >> THEN NoSecret
            ELSE IF r.ok THEN [kind |-> "str", value |-> r.value]
            ELSE [kind |-> "ValueError", value |-> << >>]

\* The record of a call of the OAuth endpoints that returned last
FlowCall(op, id, cookie, res) ==
    [op |-> op, id |-> id, cookie |-> cookie, res |-> res]

\* One call of get_user_access_token, for an id that may have no document
GetUserAccessToken(id) ==
    /\ last = NoCall
    /\ last' = FlowCall("get_user_access_token", id, NoCookie,
                        get_user_access_token(coll, id, master, fernetLog))
    /\ UNCHANGED <<now, users, sessions, cpc, cargs, loggedOut, issued>>
    /\ UNCHANGED <<vaultVars, oaVars, bootVars, jwts>>

\* The caller takes the answer
FlowRespond ==
    /\ Respond
    /\ UNCHANGED <<vaultVars, oaVars, bootVars, jwts>>

\* The response of an endpoint: the HTTPException, or the body returned
NoBody ==
    [id |-> NoDocId, github_id |-> GithubIdStr(0), email |-> "", name |-> "",
     avatar_url |-> "", username |-> "", created_at |-> 0, last_login |-> 0]

Raised(r) ==
    [ok |-> FALSE, status |-> r.status, detail |-> r.detail,
     token |-> NoToken, body |-> NoBody]

\* (the document returned as it is stored)
me_Mut(c, cookie, header, t) ==
    LET auth_data == get_current_user_from_request(cookie, header, t)
        found == FindById(c, auth_data.user_id[2])
        user == c[CHOOSE k \in found : \A m \in found : k <= m]
    IN IF ~auth_data.ok THEN Raised(auth_data)
       ELSE IF found = {} THEN Raised(HttpError(404, "User not found"))
       ELSE [ok |-> TRUE, status |-> 200, detail |-> "", token |-> NoToken,
             body |-> user]

\* GET /auth/me
me(c, cookie, header, t) ==
    LET auth_data == get_current_user_from_request(cookie, header, t)
        found == FindById(c, auth_data.user_id[2])
        user == c[CHOOSE k \in found : \A m \in found : k <= m]
    IN IF ~auth_data.ok THEN Raised(auth_data)
       ELSE IF found = {} THEN Raised(HttpError(404, "User not found"))
       ELSE [ok |-> TRUE, status |-> 200, detail |-> "", token |-> NoToken,
             body |-> [id |-> user._id, github_id |-> user.github_id,
                       email |-> user.email, name |-> user.name,
                       avatar_url |-> user.avatar_url,
                       username |-> user.username,
                       created_at |-> user.created_at,
                       last_login |-> user.last_login]]

\* (a token for whatever subject the presented token names)
refresh_token_Mut(c, cookie, header, t) ==
    LET auth_data == get_current_user_from_request(cookie, header, t)
    IN IF ~auth_data.ok THEN Raised(auth_data)
       ELSE [ok |-> TRUE, status |-> 200, detail |-> "",
             token |-> create_jwt_token(auth_data.user_id, t),
             body |-> NoBody]

\* GET /auth/refresh
refresh_token(c, cookie, header, t) ==
    LET auth_data == get_current_user_from_request(cookie, header, t)
    IN IF ~auth_data.ok THEN Raised(auth_data)
       ELSE IF FindById(c, auth_data.user_id[2]) = {}
         THEN Raised(HttpError(404, "User not found"))
       ELSE [ok |-> TRUE, status |-> 200, detail |-> "",
             token |-> create_jwt_token(auth_data.user_id, t),
             body |-> NoBody]

\* POST /auth/logout: the cookie is cleared in the response, nothing is read
logout(cookie) ==
    [ok |-> TRUE, status |-> 200, detail |-> "Logged out successfully",
     token |-> NoToken, body |-> NoBody]

Me(cookie) ==
    /\ last = NoCall
    /\ last' = FlowCall("me", NoDocId, cookie, me(coll, cookie, NoHeader, now))
    /\ UNCHANGED <<now, users, sessions, cpc, cargs, loggedOut, issued>>
    /\ UNCHANGED <<vaultVars, oaVars, bootVars, jwts>>

RefreshToken(cookie) ==
    /\ last = NoCall
    /\ Cardinality(jwts) < MaxJwts
    /\ \E r \in {refresh_token(coll, cookie, NoHeader, now)} :
          /\ last' = FlowCall("refresh_token", NoDocId, cookie, r)
          /\ jwts' = IF r.ok THEN jwts \cup {r.token} ELSE jwts
    /\ UNCHANGED <<now, users, sessions, cpc, cargs, loggedOut, issued>>
    /\ UNCHANGED <<vaultVars, oaVars, bootVars>>

Logout(cookie) ==
    /\ last = NoCall
    /\ last' = FlowCall("logout", NoDocId, cookie, logout(cookie))
    /\ UNCHANGED <<now, users, sessions, cpc, cargs, loggedOut, issued>>
    /\ UNCHANGED <<vaultVars, oaVars, bootVars, jwts>>

\* What a client can send as its cookie: no cookie, a token an endpoint
\* returned, or a token naming a record that is not in the collection
GhostToken == create_jwt_token(DocIdStr(MaxEnc + 1), 0)
FlowCookies == {NoCookie} \cup {Cookie(k) : k \in jwts \cup {GhostToken}}

\* Time passes: one tick, or up to the end of a token's lifetime
FlowHorizon(t) ==
    \/ t <= 1
    \/ /\ t >= Days(JWT_EXPIRATION_DAYS) - 1
       /\ t <= Days(JWT_EXPIRATION_DAYS) + 1

FlowAdvance(d) ==
    /\ FlowHorizon(now + d)
    /\ now' = now + d
    /\ last' = NoCall
    /\ UNCHANGED <<users, sessions, cpc, cargs, loggedOut, issued>>
    /\ UNCHANGED <<vaultVars, oaVars, bootVars, jwts>>

FlowInit == jwts = {}

-----------------------------------------------------------------------------
(* The endpoints' answers to failures (backend/logic/api.py 732-788,       *)
(* backend/auth_oauth.py 103-169)                                          *)

HttpOk ==
    [ok |-> TRUE, status |-> 200, detail |-> "", payload |-> NoToken,
     user_id |-> <<"none", 0>>]

\* POST /auth/signup, given what create_user returned
signup(result) ==
    IF ~result.success THEN HttpError(400, result.message) ELSE HttpOk

\* POST /auth/login, given what authenticate_user returned
login(result) ==
    IF ~result.success THEN HttpError(401, result.message) ELSE HttpOk

\* POST /auth/logout of logic/api.py with an Authorization header, given
\* what logout_user returned: the HTTPException raised in the try block is
\* caught by "except Exception" and replaced
api_logout(result) ==
    IF ~result.success THEN HttpError(400, "Logout failed") ELSE HttpOk

\* The get_current_user dependency with an Authorization header, given what
\* verify_token returned or raised
current_user(result) ==
    IF ~result.success THEN HttpError(401, "Invalid token") ELSE HttpOk

\* What sqlite3 raises while the database file is locked, as the except
\* clauses of logic/auth.py report it; verify_token has no such clause and
\* the exception leaves it
CreateUserDbError == "Error creating user: database is locked"
AuthenticateDbError == "Authentication error: database is locked"
LogoutDbError == "Logout error: database is locked"
VerifyRaised == "sqlite3.OperationalError: database is locked"
StorageMessages ==
    {CreateUserDbError, AuthenticateDbError, LogoutDbError, VerifyRaised}

\* A call of the password store during which the database is locked
DbLocked(op, message) ==
    /\ last = NoCall
    /\ last' = [NoCall EXCEPT !.op = op, !.res = Failure(message)]
    /\ UNCHANGED <<now, users, sessions, cpc, cargs, loggedOut, issued>>
    /\ UNCHANGED <<vaultVars, oaVars, bootVars, flowVars>>

\* The record of a request that met a condition of its environment or input
HttpCall(op, input, cookie, cause, res) ==
    [op |-> op, input |-> input, cookie |-> cookie, cause |-> cause,
     res |-> res]

\* POST /auth/logout of logic/api.py without an Authorization header
LogoutNoHeader ==
    /\ last = NoCall
    /\ last' = HttpCall("logout", "", NoCookie, "none",
                        Raised(HttpError(401,
                                         "Authorization header required")))
    /\ UNCHANGED <<now, users, sessions, cpc, cargs, loggedOut, issued>>
    /\ UNCHANGED <<vaultVars, oaVars, bootVars, flowVars>>

\* detail=f"Failed to process OAuth callback: {str(e)}", by the exception
CallbackFailed(e) ==
    IF e = "ValueError"
    THEN "Failed to process OAuth callback: invalid literal for int()"
    ELSE "Failed to process OAuth callback: No servers found yet"

\* github_id values of OAuthCallbackData that int() does not accept
BadGithubIds == {"abc", ""}

\* POST /auth/oauth/callback with such a github_id: int() raises ValueError
\* inside the try block, "except Exception" answers
CallbackBadId(github_id) ==
    /\ last = NoCall
    /\ last' = HttpCall("oauth_callback", github_id, NoCookie, "malformed",
                        Raised(HttpError(500, CallbackFailed("ValueError"))))
    /\ UNCHANGED <<now, users, sessions, cpc, cargs, loggedOut, issued>>
    /\ UNCHANGED <<vaultVars, oaVars, bootVars, flowVars>>

\* POST /auth/oauth/callback while the users collection cannot be reached
CallbackDbError ==
    /\ last = NoCall
    /\ last' = HttpCall("oauth_callback", "1", NoCookie, "storage",
                        Raised(HttpError(500, CallbackFailed("PyMongoError"))))
    /\ UNCHANGED <<now, users, sessions, cpc, cargs, loggedOut, issued>>
    /\ UNCHANGED <<vaultVars, oaVars, bootVars, flowVars>>

\* GET /auth/me while the users collection cannot be reached: the token is
\* verified first, then get_user_by_id raises
MeDbError(cookie) ==
    /\ last = NoCall
    /\ \E auth \in {get_current_user_from_request(cookie, NoHeader, now)} :
          last' = HttpCall("me", "", cookie,
                           IF auth.ok THEN "storage" ELSE "none",
                           IF auth.ok
                           THEN Raised(HttpError(500, "Failed to get user"))
                           ELSE Raised(auth))
    /\ UNCHANGED <<now, users, sessions, cpc, cargs, loggedOut, issued>>
    /\ UNCHANGED <<vaultVars, oaVars, bootVars, flowVars>>

-----------------------------------------------------------------------------
(* Specifications *)

PwInit ==
    /\ now = 0
    /\ users = <<>>
    /\ sessions = <<>>
    /\ cpc = [p \in Procs |-> "idle"]
    /\ cargs = [p \in Procs |->
                  [username |-> "", email |-> "", password |-> ""]]
    /\ last = NoCall
    /\ loggedOut = {}
    /\ issued = {}

\* The deployed configuration: MongoDB
Init ==
    /\ PwInit /\ VaultInit /\ OAuthInit /\ BootDone /\ FlowInit
    /\ memoryDb = FALSE

\* Either configuration of the users collection
InitOAuth ==
    /\ PwInit /\ VaultInit /\ OAuthInit /\ BootDone /\ FlowInit
    /\ memoryDb \in BOOLEAN

\* Requests served one at a time
PwNext ==
    \/ \E u \in Names, e \in Names, pw \in Passwords, salt \in PwSalts :
          CreateUser(u, e, pw, salt)
    \/ \E id \in Names, pw \in Passwords, d1 \in 0..1, d2 \in 0..1 :
          AuthenticateUser(id, pw, d1, d2)
    \/ \E t \in TokenInputs : VerifyToken(t)
    \/ \E t \in issued : LogoutUser(t)
    \/ \E d \in {1, PwTtlTicks} : Advance(d)

vars == <<pwVars, vaultVars, oaVars, bootVars, flowVars>>

Next == PwNext /\ UNCHANGED <<vaultVars, oaVars, bootVars, flowVars>>

Spec == Init /\ [][Next]_vars

\* The same with an operator deactivating accounts
NextAdmin ==
    \/ Next
    \/ (\E i \in 1..Len(users) : DeactivateAccount(i))
          /\ UNCHANGED <<vaultVars, oaVars, bootVars, flowVars>>

SpecAdmin == Init /\ [][NextAdmin]_vars

\* Concurrent signup requests (each create_user runs in its own thread with
\* its own connection)
SignupNext ==
    \/ \E p \in Procs, u \in Names, e \in Names, pw \in Passwords :
          CreateUserCheck(p, u, e, pw)
    \/ \E p \in Procs, salt \in PwSalts : CreateUserInsert(p, salt)

NextSignup == SignupNext /\ UNCHANGED <<vaultVars, oaVars, bootVars, flowVars>>

SpecSignup == Init /\ [][NextSignup]_vars

\* encrypt_value and decrypt_value called on the blobs stored so far
VaultNext == NextVault /\ UNCHANGED <<pwVars, oaVars, bootVars, flowVars>>

SpecVault == Init /\ [][VaultNext]_vars

\* Concurrent create_or_update_user calls
OAuthNext == NextOAuth /\ UNCHANGED <<pwVars, bootVars, flowVars>>

SpecOAuth == InitOAuth /\ [][OAuthNext]_vars

\* The same with an operator deactivating user documents
NextOAuthAdmin ==
    \/ OAuthNext
    \/ (\E i \in 1..Len(coll) : DeactivateUser(i))
          /\ UNCHANGED <<pwVars, bootVars, flowVars>>

SpecOAuthAdmin == InitOAuth /\ [][NextOAuthAdmin]_vars

\* Tokens logout_user is called with: issued ones, and one that never had a
\* session row
LogoutInputs == issued \cup {create_jwt_token(<<"str", 1>>, 0)}

\* Credentials a request can carry at time t
OAuthCredentials(t) ==
    {create_jwt_token(<<"str", 1>>, t), create_jwt_token(<<"str", 2>>, t),
     create_jwt_token(<<"str", 1>>, t - Days(JWT_EXPIRATION_DAYS))}

Cookies(tokens) == {NoCookie} \cup {Cookie(t) : t \in tokens}

Headers(tokens) ==
    {NoHeader, Header("Basic", NotAJwt)}
        \cup {Header("Bearer", t) : t \in tokens}

\* The password store, each account signed up with username = email, together
\* with the OAuth token functions and the two request boundaries
TokenNext ==
    \/ \E u \in Names, salt \in PwSalts : CreateUser(u, u, "p", salt)
    \/ \E id \in Names, pw \in Passwords, d1 \in 0..1 :
          AuthenticateUser(id, pw, d1, 0)
    \/ \E t \in TokenInputs : VerifyToken(t)
    \/ \E t \in LogoutInputs : LogoutUser(t)
    \/ \E d \in {1, PwTtlTicks - 1, PwTtlTicks} : Advance(d)
    \/ \E t \in JwtInputs(now) : VerifyJwtToken(t)
    \/ \E c \in Cookies(OAuthCredentials(now)),
          h \in Headers(OAuthCredentials(now)) : OAuthRequest(c, h)
    \/ \E c \in Cookies(issued), h \in Headers(issued) :
          PasswordRequest(c, h)
    \/ Respond

NextToken == TokenNext /\ UNCHANGED <<vaultVars, oaVars, bootVars, flowVars>>

SpecToken == Init /\ [][NextToken]_vars

\* A process starting in any environment, from either entry module
InitBoot ==
    /\ PwInit /\ VaultInit /\ OAuthInit /\ BootStart /\ FlowInit
    /\ memoryDb = FALSE

NextBoot == BootNext /\ UNCHANGED <<pwVars, vaultVars, oaVars, flowVars>>

SpecBoot == InitBoot /\ [][NextBoot]_vars

\* Callbacks with changing profiles, and the clock
NextUpsert ==
    \/ \E t \in Tasks, gid \in GithubIds, p \in Profiles,
          s \in AccessTokens : CallbackFind(t, gid, p, s)
    \/ \E t \in Tasks : CallbackWrite(t)
    \/ \E t \in Tasks : CallbackReturn(t)
    \/ \E t \in Tasks, gid \in GithubIds, p \in Profiles,
          s \in AccessTokens : CallbackMemory(t, gid, p, s)
    \/ \E d \in {1, Days(JWT_EXPIRATION_DAYS) - 1} : FlowAdvance(d)

SpecUpsert == InitOAuth /\ [][NextUpsert]_vars

\* The OAuth endpoints over either configuration of the users collection,
\* every callback with the same profile
FlowProfiles == {CHOOSE p \in Profiles : TRUE}

NextFlow ==
    \/ \E t \in Tasks, gid \in GithubIds, p \in FlowProfiles,
          s \in AccessTokens : CallbackFind(t, gid, p, s)
    \/ \E t \in Tasks : CallbackWrite(t)
    \/ \E t \in Tasks : CallbackReturn(t)
    \/ \E t \in Tasks, gid \in GithubIds, p \in FlowProfiles,
          s \in AccessTokens : CallbackMemory(t, gid, p, s)
    \/ \E d \in {1, Days(JWT_EXPIRATION_DAYS) - 1} : FlowAdvance(d)
    \/ \E c \in FlowCookies : Me(c)
    \/ \E c \in FlowCookies : RefreshToken(c)
    \/ \E c \in FlowCookies : Logout(c)
    \/ FlowRespond

SpecFlow == InitOAuth /\ [][NextFlow]_vars

\* Callbacks with an empty or a non-empty access token, and reads of the
\* stored token
NextSecret ==
    \/ \E t \in Tasks, gid \in GithubIds, p \in Profiles,
          s \in CallbackSecrets : CallbackFind(t, gid, p, s)
    \/ \E t \in Tasks : CallbackWrite(t)
    \/ \E t \in Tasks : CallbackReturn(t)
    \/ \E t \in Tasks, gid \in GithubIds, p \in Profiles,
          s \in CallbackSecrets : CallbackMemory(t, gid, p, s)
    \/ \E id \in 1..(MaxEnc + 1) : GetUserAccessToken(id)
    \/ FlowRespond

SpecSecret == InitOAuth /\ [][NextSecret]_vars

\* Requests to the endpoints of both paths, some of them with a locked or
\* unreachable database or a malformed input
NextHttp ==
    \/ /\ \/ \E u \in Names, salt \in PwSalts : CreateUser(u, u, "p", salt)
          \/ \E id \in Names, pw \in Passwords :
                AuthenticateUser(id, pw, 0, 0)
          \/ \E t \in LogoutInputs : LogoutUser(t)
          \/ \E h \in Headers(TokenInputs) : PasswordRequest(NoCookie, h)
          \/ Respond
       /\ UNCHANGED <<vaultVars, oaVars, bootVars, flowVars>>
    \/ DbLocked("create_user", CreateUserDbError)
    \/ DbLocked("authenticate_user", AuthenticateDbError)
    \/ DbLocked("verify_token", VerifyRaised)
    \/ DbLocked("logout_user", LogoutDbError)
    \/ LogoutNoHeader
    \/ \E g \in BadGithubIds : CallbackBadId(g)
    \/ CallbackDbError
    \/ \E t \in Tasks, p \in FlowProfiles, s \in AccessTokens :
          CallbackMemory(t, 1, p, s)
    \/ \E c \in FlowCookies : Me(c)
    \/ \E c \in FlowCookies : MeDbError(c)

InitHttp ==
    /\ PwInit /\ VaultInit /\ OAuthInit /\ BootDone /\ FlowInit
    /\ memoryDb = TRUE

SpecHttp == InitHttp /\ [][NextHttp]_vars

-----------------------------------------------------------------------------
(* Properties of the password store *)

SigValid(t) == t.key = JWT_SECRET
Unexpired(t) == t.exp * TicksPerSec > now
LiveRow(t) ==
    \E i \in 1..Len(sessions) :
        /\ sessions[i].token_hash = Sha256(t)
        /\ sessions[i].is_active
        /\ sessions[i].expires_at > now
TokenError(m) == m \in {"Token has expired", "Invalid token"}
SessionFailure(m) == m = "Invalid or expired token"

\* C1 (as claimed): once logout_user(t) has returned success, every later
\* verify_token(t) fails, also when the account logs in again.
C1_RevokedNeverVerifies ==
    (last.op = "verify_token" /\ last.revoked) => ~last.res.success

C4_UniqueUsernameEmail ==
    \A i, j \in 1..Len(users) :
        i # j => /\ users[i].username # users[j].username
                 /\ users[i].email # users[j].email

\* Two requests passed the existence check together and the second INSERT
\* was refused.
C4_Witness ==
    /\ Len(users) >= 1
    /\ last.op = "create_user"
    /\ last.dup
    /\ last.res.message # DuplicateMessage

\* C5 (as claimed): a create_user call that finds the username or email taken,
\* before its check or between its check and its insert, fails with the
\* duplicate-identity result and adds no row.
C5_DuplicateIdentity ==
    (last.op = "create_user" /\ last.dup) =>
        /\ ~last.res.success
        /\ last.res.message = DuplicateMessage
        /\ ~last.added

WrongPassword(i, pw) ==
    /\ users[i].is_active
    /\ ~verify_password(pw, users[i].password_hash, users[i].salt)

\* C6: authenticate_user returns the same failure for an identifier matching
\* no account and for one matching an active account with a wrong password.
C6_Indistinguishable ==
    /\ \A i \in 1..Len(users), pw1 \in Passwords, pw2 \in Passwords :
          WrongPassword(i, pw2) =>
              LET unknown == AuthResult(users, NoRow, pw1, now, now)
                  wrong == AuthResult(users, i, pw2, now, now)
              IN /\ wrong = unknown
                 /\ ~unknown.success
                 /\ unknown.message = "Invalid credentials"
    /\ (/\ last.op = "authenticate_user"
        /\ \/ last.row = NoRow
           \/ WrongPassword(last.row, last.password))
       => last.res = Failure("Invalid credentials")

\* authenticate_user has just refused a wrong password for an active account,
\* and an unknown identifier exists to compare with.
C6_Witness ==
    /\ last.op = "authenticate_user"
    /\ last.row # NoRow
    /\ WrongPassword(last.row, last.password)
    /\ ~last.res.success
    /\ \E id \in Names : Matching(users, id, id) = {}

\* C7 (as claimed): the credentials of every active account, by username and
\* by email, authenticate whatever other accounts exist, and the returned
\* token verifies to that account's id, username and email.
C7_OwnCredentialsAuthenticate ==
    last.op = "authenticate_user" =>
        \A i \in last.owners :
            /\ last.res.success
            /\ LET v == verify_token(sessions, users, last.res.token, now)
               IN /\ v.success
                  /\ v.user = [id |-> <<"int", users[i].id>>,
                               username |-> users[i].username,
                               email |-> users[i].email]

-----------------------------------------------------------------------------
(* Properties of encrypt_value / decrypt_value *)

\* The blob of the last decrypt_value call is one encrypt_value returned for a
\* non-empty string
OfStoredBlob == lastDec.ix > 0 /\ vault[lastDec.ix].pt # << >>

SameMaster == vault[lastDec.ix].master = master

\* C8: decrypt_value(encrypt_value(s)) = s for every non-empty string s, as
\* long as the master secret is the one the blob was made under
C8_RoundTrip ==
    (OfStoredBlob /\ lastDec.kind = "intact" /\ SameMaster)
        => lastDec.res = [ok |-> TRUE, value |-> vault[lastDec.ix].pt]

\* A string with a two-byte character came back from its blob
C8_Witness ==
    /\ OfStoredBlob /\ lastDec.kind = "intact" /\ SameMaster
    /\ vault[lastDec.ix].pt = <<233, 97>>
    /\ lastDec.res.ok /\ lastDec.res.value = <<233, 97>>

\* C9: decrypt_value fails, and returns no plaintext, for a blob made under
\* another master secret, for a truncated blob (also one shorter than the
\* salt), and for a blob whose salt or ciphertext bytes were altered
C9_TamperedFails ==
    (OfStoredBlob /\ (lastDec.kind # "intact" \/ ~SameMaster))
        => ~lastDec.res.ok

\* The first 16 bytes of a blob (they lie in its first 24 characters)
SaltPrefix(blob) == Take(B64Decode(Take(blob, 24)).bytes, 16)

\* C10: two encrypt_value calls on the same non-empty string return different
\* blobs, whose 16-byte salt prefixes differ
C10_FreshSalt ==
    \A i, j \in 1..Len(vault) :
        (i # j /\ vault[i].pt # << >> /\ vault[i].pt = vault[j].pt)
            => /\ vault[i].blob # vault[j].blob
               /\ Len(SaltPrefix(vault[i].blob)) = 16
               /\ SaltPrefix(vault[i].blob) # SaltPrefix(vault[j].blob)

\* The same string was encrypted twice under the same master secret
C10_Witness ==
    \E i, j \in 1..Len(vault) :
        /\ i # j /\ vault[i].pt # << >> /\ vault[i].pt = vault[j].pt
        /\ vault[i].master = vault[j].master

-----------------------------------------------------------------------------
(* Properties of the users collection *)

\* C3: the users collection never holds two records with the same github_id,
\* and callers of create_or_update_user for the same github_id are returned
\* the same record id
C3_OneRecordPerExternalId ==
    /\ \A i, j \in 1..Len(coll) :
          coll[i].github_id = coll[j].github_id => i = j
    /\ \A t, u \in Tasks :
          (/\ oauthRes[t].id # NoDocId /\ oauthRes[u].id # NoDocId
           /\ oauthRes[t].github_id = oauthRes[u].github_id)
              => oauthRes[t].id = oauthRes[u].id

-----------------------------------------------------------------------------
(* Properties of the empty string *)

\* C11: encrypt_value("") returns "" and decrypt_value("") returns "", with
\* no salt drawn, no key derived and no Fernet call made: the draws and the
\* Fernet log account for the non-empty values only, and the result of
\* decrypt_value("") is the same under every master secret
C11_EmptyExempt ==
    /\ \A i \in 1..Len(vault) : vault[i].pt = << >> => vault[i].blob = << >>
    /\ Len(fernetLog) = Cardinality({i \in 1..Len(vault) :
                                       vault[i].pt # << >>})
    /\ drawn = 2 * Len(fernetLog)
    /\ (lastDec.ix > 0 /\ vault[lastDec.ix].blob = << >>)
          => lastDec.res = [ok |-> TRUE, value |-> << >>]

\* The empty blob of encrypt_value("") went through decrypt_value after the
\* master secret had changed
C11_Witness ==
    /\ lastDec.ix > 0
    /\ vault[lastDec.ix].pt = << >> /\ vault[lastDec.ix].blob = << >>
    /\ vault[lastDec.ix].master # master
    /\ lastDec.res.ok


-----------------------------------------------------------------------------
(* OAuth tokens *)

\* token is what create_jwt_token(id) returned some time ago
Minted(token, id) ==
    \E age \in Ages : token = create_jwt_token(id, now - age)

\* C12: for every subject identifier id, verify_jwt_token applied before the
\* expiry to the token create_jwt_token(id) returned succeeds, and the
\* user_id of the payload it returns is id.
C12_RoundTrip ==
    \A id \in SubjectIds :
        (/\ last.op = "verify_jwt_token"
         /\ Minted(last.token, id)
         /\ Unexpired(last.token))
            => (last.res.ok /\ last.res.payload.user_id = id)

\* a token verified one tick before its expiry, after the clock has moved
C12_Witness ==
    /\ last.op = "verify_jwt_token"
    /\ now > 0
    /\ last.token = create_jwt_token(<<"str", 2>>,
                                     now - (Days(JWT_EXPIRATION_DAYS) - 1))
    /\ last.res.ok
    /\ last.res.payload.user_id = <<"str", 2>>


\* C13: on both token paths a correctly signed token whose expiry has passed
\* is rejected as expired ("Token has expired"), whatever the session rows.
C13_ExpiredRejected ==
    /\ (/\ last.op = "verify_jwt_token"
        /\ last.token.key = EnvJwtSecret
        /\ ~Unexpired(last.token))
           => (~last.res.ok /\ last.res.detail = "Token has expired")
    /\ (/\ last.op = "verify_token"
        /\ SigValid(last.token)
        /\ ~Unexpired(last.token))
           => (~last.res.success /\ last.res.message = "Token has expired")

\* verify_token has rejected an expired token whose session row is still
\* active and not past expires_at
C13_Witness ==
    /\ last.op = "verify_token"
    /\ SigValid(last.token)
    /\ ~Unexpired(last.token)
    /\ LiveRow(last.token)
    /\ last.res.message = "Token has expired"


WrongIssuer(t) == t.iss \notin {"", "space-biology-engine"}
WrongAudience(t) == t.aud \notin {"", "space-biology-frontend"}

\* C14: the failure verify_jwt_token reports follows the precedence
\* signature, expiry, issuer, audience: a badly signed token is reported as
\* badly signed whatever its claims, a well-signed expired token as expired
\* whatever its issuer and audience, a well-signed unexpired token with a
\* wrong issuer as invalid issuer whatever its audience, and a wrong
\* audience is reported only when nothing else is wrong.
C14_Precedence ==
    last.op = "verify_jwt_token" =>
        LET t == last.token
            sig == t.key = EnvJwtSecret
        IN /\ ~sig => last.res.detail
                        = "Invalid token: Signature verification failed"
           /\ (sig /\ ~Unexpired(t)) => last.res.detail = "Token has expired"
           /\ (sig /\ Unexpired(t) /\ WrongIssuer(t))
                  => last.res.detail = "Invalid token issuer"
           /\ (sig /\ Unexpired(t) /\ t.iss = "space-biology-engine"
                  /\ WrongAudience(t))
                  => last.res.detail = "Invalid token audience"

\* a well-signed, unexpired token with both a wrong issuer and a wrong
\* audience has been reported as invalid issuer
C14_Witness ==
    /\ last.op = "verify_jwt_token"
    /\ last.token.key = EnvJwtSecret
    /\ Unexpired(last.token)
    /\ WrongIssuer(last.token) /\ WrongAudience(last.token)
    /\ last.res.detail = "Invalid token issuer"


-----------------------------------------------------------------------------
(* Request boundaries *)

Unauthenticated(res) ==
    /\ ~res.ok
    /\ res.detail \in {"Not authenticated", "Authorization header required"}

\* The outcome of verifying token on the path of boundary op: success and
\* the user, or failure
Verified(op, token) ==
    IF op = "get_current_user"
      THEN LET r == verify_token(sessions, users, token, now)
           IN [ok |-> r.success, user_id |-> r.user.id]
      ELSE LET r == verify_jwt_token(token, now)
           IN [ok |-> r.ok, user_id |-> r.payload.user_id]

\* C17 (as claimed): each boundary takes the token from the cookie when
\* there is one and from the Bearer header otherwise, gives for it the
\* outcome of verifying it, whichever transport carried it, and reports a
\* request with neither cookie nor header as unauthenticated, which no
\* presented token is reported as.
C17_CookieThenHeader ==
    last.op \in {"get_current_user_from_request", "get_current_user"} =>
        LET c == last.cookie
            h == last.header
            bearer == h.present /\ h.scheme = "Bearer"
            token == IF c.present THEN c.token ELSE h.token
            v == Verified(last.op, token)
        IN /\ (~c.present /\ ~h.present) => Unauthenticated(last.res)
           /\ (c.present \/ bearer) =>
                 /\ ~Unauthenticated(last.res)
                 /\ last.res.ok = v.ok
                 /\ v.ok => last.res.user_id = v.user_id


-----------------------------------------------------------------------------
(* Startup *)

\* C15 (as claimed): on every code path a missing signing secret stops the
\* process before it serves, a missing master secret stops a process that
\* loads the encryption module, and no function ever runs with the built-in
\* default secret.
C15_FailFast ==
    /\ environ["JWT_SECRET"] = NoneValue => boot # "serving"
    /\ (environ["ENCRYPTION_KEY"] = NoneValue /\ entry = "main")
          => boot # "serving"
    /\ \A u \in used : u[2] # DefaultJwtSecret


-----------------------------------------------------------------------------
(* Inactive identities *)

\* authenticate_user has fetched the row of a deactivated account
InactiveLogin ==
    /\ last.op = "authenticate_user"
    /\ last.row # NoRow
    /\ ~users[last.row].is_active

\* The password half: a login that fetched a deactivated account fails with
\* the deactivation message and returns no token
C16_PasswordHalf ==
    InactiveLogin =>
        /\ ~last.res.success
        /\ last.res.token = NoToken
        /\ last.res.message = DeactivatedMessage

\* A step that leaves deactivated user documents deactivated and returns
\* none of them to the OAuth callback, which would issue a token for it
InactiveStays ==
    /\ \A i \in 1..Len(coll) : ~coll[i].is_active => ~coll'[i].is_active
    /\ \A t \in Tasks : \A i \in 1..Len(coll) :
          (oauthRes'[t] # oauthRes[t] /\ coll[i]._id = oauthRes'[t].id)
              => coll[i].is_active

\* C16 (as claimed): an inactive identity is rejected on both paths:
\* authenticate_user returns no token for a deactivated account, and a step
\* of the OAuth callback neither sets is_active of a deactivated user
\* document nor returns such a document to have a token issued for it.
C16_InactiveRejected == [](C16_PasswordHalf) /\ [][InactiveStays]_vars


-----------------------------------------------------------------------------
(* Logout *)

HasRow(sess, t) == \E i \in 1..Len(sess) : sess[i].token_hash = Sha256(t)

HasActiveRow(sess, t) ==
    \E i \in 1..Len(sess) :
        sess[i].token_hash = Sha256(t) /\ sess[i].is_active

\* A step in which logout_user(last'.token) returns
LogoutStep == last'.op = "logout_user"

\* C18: logout_user always returns success; called on a token none of whose
\* session rows is active, or which has no session row at all, it leaves the
\* table as it is; after it no row of the token is active, so that a second
\* call leaves the state of the first.
C18_LogoutIdempotent ==
    [][LogoutStep =>
          /\ last'.res.success
          /\ ~HasActiveRow(sessions, last'.token) => sessions' = sessions
          /\ ~HasActiveRow(sessions', last'.token)
          /\ (last.op = "logout_user" /\ last.token = last'.token)
                => sessions' = sessions]_vars

\* logout_user has returned success a second time for a token whose only
\* session row the first call had deactivated
C18_Witness ==
    /\ last.op = "logout_user"
    /\ last.revoked
    /\ last.res.success
    /\ Cardinality({i \in 1..Len(sessions) :
                       sessions[i].token_hash = Sha256(last.token)}) = 1
    /\ ~HasActiveRow(sessions, last.token)


-----------------------------------------------------------------------------
(* Session lifecycle *)

\* A step adds a row only as the INSERT of a successful authenticate_user,
\* for the token that call returns
CreatedByLogin ==
    Len(sessions') > Len(sessions) =>
        /\ Len(sessions') = Len(sessions) + 1
        /\ last'.op = "authenticate_user"
        /\ last'.res.success
        /\ sessions'[Len(sessions')].token_hash = Sha256(last'.res.token)
        /\ sessions'[Len(sessions')].is_active

\* A step keeps every row, changing at most its is_active from 1 to 0
NeverDeleted ==
    /\ Len(sessions') >= Len(sessions)
    /\ \A i \in 1..Len(sessions) :
          \/ sessions'[i] = sessions[i]
          \/ sessions'[i] = [sessions[i] EXCEPT !.is_active = FALSE]

\* Every session row of t has reached its expires_at
AllRowsExpired(t) ==
    \A i \in 1..Len(sessions) :
        sessions[i].token_hash = Sha256(t) => sessions[i].expires_at <= now

\* C19: a session row is created only by a successful authenticate_user, no
\* step deletes a row or changes one otherwise than by setting is_active to
\* 0, and a token all of whose rows have reached expires_at does not verify,
\* whatever their is_active.
C19_SessionLifecycle ==
    /\ [][CreatedByLogin /\ NeverDeleted]_vars
    /\ []((last.op = "verify_token" /\ AllRowsExpired(last.token))
             => ~last.res.success)

\* verify_token has failed for a token whose session row is still active
\* but has reached expires_at
C19_Witness ==
    /\ last.op = "verify_token"
    /\ ~last.res.success
    /\ HasActiveRow(sessions, last.token)
    /\ AllRowsExpired(last.token)


-----------------------------------------------------------------------------
(* Several sessions *)

\* A login step leaves every earlier session row as it is
LoginKeepsSessions ==
    Len(sessions') > Len(sessions) =>
        \A i \in 1..Len(sessions) : sessions'[i] = sessions[i]

\* A logout step changes only rows with the digest of its token, and every
\* other token verifies as it did before the step
LogoutTouchesOwnRows ==
    LogoutStep =>
        /\ \A i \in 1..Len(sessions) :
              sessions[i].token_hash # Sha256(last'.token)
                 => sessions'[i] = sessions[i]
        /\ \A u \in TokenInputs \ {last'.token} :
              verify_token(sessions', users', u, now')
                 = verify_token(sessions, users, u, now)

\* C20: a new login does not deactivate earlier sessions, and logout_user(t)
\* changes only session rows whose digest is that of t: every other token,
\* of the same account or of another, verifies exactly as before.
C20_IndependentSessions ==
    [][LoginKeepsSessions /\ LogoutTouchesOwnRows]_vars

\* An account held two active sessions with different tokens; logout_user
\* has deactivated the one of its token, and the other is still active,
\* unexpired and verifies
C20_Witness ==
    /\ last.op = "logout_user"
    /\ \E i, j \in 1..Len(sessions) :
          /\ sessions[i].token_hash = Sha256(last.token)
          /\ ~sessions[i].is_active
          /\ sessions[j].user_id = sessions[i].user_id
          /\ sessions[j].token_hash # sessions[i].token_hash
          /\ sessions[j].is_active
          /\ sessions[j].expires_at > now
          /\ \E u \in issued :
                /\ Sha256(u) = sessions[j].token_hash
                /\ verify_token(sessions, users, u, now).success


-----------------------------------------------------------------------------
(* The upsert of a User (backend/db.py 133-168)                            *)

\* A step in which create_or_update_user writes: it encrypts once
UpsertWrites == Len(vault') = Len(vault) + 1

\* What the call's lookup found: the awaited find_one over MongoDB, the
\* scan of the list in memory
LookedUp(github_id) ==
    IF memoryDb
    THEN IF FindByGithubId(coll, github_id) = {} THEN NoDocId
         ELSE coll[CHOOSE k \in FindByGithubId(coll, github_id) :
                      \A m \in FindByGithubId(coll, github_id) : k <= m]._id
    ELSE targs[CHOOSE t \in Tasks : tpc[t] = "found" /\ tpc'[t] # "found"]
         .existing

\* The profile the writing call was given, where the model keeps it
GivenProfile(doc) ==
    IF memoryDb
    THEN \E p \in Profiles :
            /\ doc.email = p.email /\ doc.name = p.name
            /\ doc.avatar_url = p.avatar_url /\ doc.username = p.login
    ELSE \E t \in Tasks :
            /\ tpc[t] = "found" /\ tpc'[t] # "found"
            /\ doc.email = targs[t].profile.email
            /\ doc.name = targs[t].profile.name
            /\ doc.avatar_url = targs[t].profile.avatar_url
            /\ doc.username = targs[t].profile.login

\* The blob the writing call has just made
NewBlob == vault'[Len(vault')].blob

FreshBlob ==
    vault'[Len(vault')].pt # << >> =>
        \A k \in 1..Len(vault) : vault[k].blob # NewBlob

UpdatesInPlace(i) ==
    /\ Len(coll') = Len(coll)
    /\ \A j \in 1..Len(coll) : j # i => coll'[j] = coll[j]
    /\ coll'[i]._id = coll[i]._id
    /\ coll'[i].github_id = coll[i].github_id
    /\ coll'[i].created_at = coll[i].created_at
    /\ GivenProfile(coll'[i])
    /\ coll'[i].access_token = NewBlob
    /\ coll'[i].updated_at = now
    /\ coll'[i].last_login = now

InsertsOne ==
    /\ Len(coll') = Len(coll) + 1
    /\ \A j \in 1..Len(coll) : coll'[j] = coll[j]
    /\ FindById(coll, coll'[Len(coll')]._id) = {}
    /\ GivenProfile(coll'[Len(coll')])
    /\ coll'[Len(coll')].access_token = NewBlob
    /\ coll'[Len(coll')].created_at = now
    /\ coll'[Len(coll')].updated_at = now
    /\ coll'[Len(coll')].last_login = now

UpsertEffect ==
    UpsertWrites =>
        /\ FreshBlob
        /\ \E gid \in {GithubIdStr(g) : g \in GithubIds} :
              IF LookedUp(gid) # NoDocId
              THEN \E i \in FindById(coll, LookedUp(gid)) :
                      /\ coll[i].github_id = gid
                      /\ UpdatesInPlace(i)
              ELSE /\ InsertsOne
                   /\ coll'[Len(coll')].github_id = gid

\* The id the call returns is the id of the record its lookup found
ReturnsSameId ==
    \A t \in Tasks :
        /\ (~memoryDb /\ tpc[t] = "updated" /\ tpc'[t] = "idle")
              => oauthRes'[t].id = targs[t].existing
        /\ (memoryDb /\ UpsertWrites /\ oauthRes'[t] # oauthRes[t])
              => oauthRes'[t].id =
                    IF LookedUp(oauthRes'[t].github_id) # NoDocId
                    THEN LookedUp(oauthRes'[t].github_id)
                    ELSE coll'[Len(coll')]._id

UpsertStep == UpsertEffect /\ ReturnsSameId

\* C21: create_or_update_user for an external id whose lookup finds a User
\* returns that User's id, leaves _id, github_id and created_at as they
\* were, overwrites email, name, avatar_url and username with the new
\* profile, stores a newly made blob even when the secret is the one stored
\* before, and sets updated_at and last_login to the time of the call; when
\* the lookup finds none it appends exactly one record whose created_at,
\* updated_at and last_login are all the time of the call.
C21_UpsertFrame == [][UpsertStep]_vars

\* A record updated later than it was created, by a call that stored the
\* same secret again under a different blob
C21_Witness ==
    /\ Len(vault) = 2
    /\ vault[1].pt = vault[2].pt
    /\ vault[1].pt # << >>
    /\ vault[1].blob # vault[2].blob
    /\ \E i \in 1..Len(coll) :
          /\ coll[i].updated_at > coll[i].created_at
          /\ coll[i].access_token = vault[2].blob
    /\ \A t \in Tasks : tpc[t] = "idle"


-----------------------------------------------------------------------------
(* The stored access token (backend/db.py 142-152, 171-177)                *)

\* The secrets whose blob a document holds
SecretsOf(doc) ==
    {vault[k].pt : k \in {j \in 1..Len(vault) :
                             vault[j].blob = doc.access_token}}

\* A non-empty access_token field is a blob encrypt_value returned for a
\* non-empty secret; it is none of the secrets and decrypts to its own
StoredAsBlob ==
    \A i \in 1..Len(coll) :
        coll[i].access_token # << >> =>
            /\ SecretsOf(coll[i]) # {}
            /\ << >> \notin SecretsOf(coll[i])
            /\ coll[i].access_token \notin CallbackSecrets
            /\ \A pt \in SecretsOf(coll[i]) :
                  decrypt_value(coll[i].access_token, master, fernetLog)
                      = [ok |-> TRUE, value |-> pt]

\* What a read of every id would return before and after the step
ReadNow(id) == get_user_access_token(coll, id, master, fernetLog)
ReadNext(id) == get_user_access_token(coll', id, master', fernetLog')

\* The secret the writing call was given
WrittenSecret == vault'[Len(vault')].pt

\* The writing call wrote document i and no other
Wrote(i) ==
    /\ coll'[i].access_token = NewBlob
    /\ \A j \in 1..Len(coll) : j # i => coll'[j] = coll[j]
    /\ \A id \in 1..(MaxEnc + 1) :
          id # coll'[i]._id => ReadNext(id) = ReadNow(id)

\* Reads change only with a write: no other step changes what a read is
\* computed from
ReadsStable ==
    ~UpsertWrites =>
        /\ coll' = coll
        /\ master' = master
        /\ fernetLog' = fernetLog

ReadsBackNonEmpty ==
    UpsertWrites =>
        \E i \in 1..Len(coll') :
            /\ Wrote(i)
            /\ WrittenSecret # << >> =>
                  ReadNext(coll'[i]._id)
                      = [kind |-> "str", value |-> WrittenSecret]

ReadsBackAny ==
    UpsertWrites =>
        \E i \in 1..Len(coll') :
            /\ Wrote(i)
            /\ ReadNext(coll'[i]._id)
                  = [kind |-> "str", value |-> WrittenSecret]

\* The answer of a get_user_access_token call is the read of that state
AnswersRead ==
    (last' # last /\ last'.op = "get_user_access_token")
        => last'.res = ReadNext(last'.id)

StoredSecretStep == ReadsStable /\ ReadsBackNonEmpty /\ AnswersRead

StoredSecretStepAny == ReadsStable /\ ReadsBackAny /\ AnswersRead

\* C22 (as amended): in every state the access_token field of a document
\* holding a non-empty secret is a blob of the vault and never the secret
\* itself, and after create_or_update_user stored a non-empty secret for a
\* User, get_user_access_token of that User's id returns that secret until
\* the next upsert that writes the same document.
C22_StoredSecret == [](StoredAsBlob) /\ [][StoredSecretStep]_vars

\* C22 as stated: the same for every secret, the empty one included
C22_AnySecret == [](StoredAsBlob) /\ [][StoredSecretStepAny]_vars

\* A read that returned the non-empty secret of a document whose earlier
\* secret was the empty one
C22_Witness ==
    /\ last.op = "get_user_access_token"
    /\ last.res = [kind |-> "str", value |-> <<233, 97>>]
    /\ Len(vault) = 2
    /\ Len(coll) = 1
    /\ vault[1].pt = << >>


-----------------------------------------------------------------------------
(* OAuth end to end (backend/auth_oauth.py 103-169)                        *)

\* The document with an id, as get_user_by_id finds it
DocOf(c, id) ==
    c[CHOOSE k \in FindById(c, id) : \A m \in FindById(c, id) : k <= m]

\* A callback returns in this step: task t has a new result
CallbackReturns(t) ==
    /\ oauthRes'[t] # oauthRes[t] \/ (tpc[t] = "updated" /\ tpc'[t] = "idle")
    /\ oauthRes'[t].id # NoDocId

\* The token the callback returns names the User it returns
CallbackTokenNamesUser ==
    \A t \in Tasks :
        CallbackReturns(t) =>
            /\ FindById(coll', oauthRes'[t].id) # {}
            /\ DocOf(coll', oauthRes'[t].id).github_id
                  = oauthRes'[t].github_id
            /\ \E k \in jwts' :
                  /\ k.user_id = DocIdStr(oauthRes'[t].id)
                  /\ k.iat = ToTimestamp(now)
                  /\ jwts' = jwts \cup {k}

\* No step gives a record another id or another external id
IdentityKept ==
    \A i \in 1..Len(coll) :
        /\ Len(coll') >= Len(coll)
        /\ coll'[i]._id = coll[i]._id
        /\ coll'[i].github_id = coll[i].github_id

\* A /me request with a token an endpoint returned, not yet expired, whose
\* record exists, answers with that record and without the secret
MeResolves ==
    (/\ last' # last
     /\ last'.op = "me"
     /\ last'.cookie.present
     /\ last'.cookie.token \in jwts
     /\ Unexpired(last'.cookie.token)
     /\ FindById(coll, last'.cookie.token.user_id[2]) # {})
    => /\ last'.res.ok
       /\ "access_token" \notin DOMAIN last'.res.body
       /\ "access_token" \notin DOMAIN last'.res
       /\ DOMAIN last'.res.body
             = {"id", "github_id", "email", "name", "avatar_url",
                "username", "created_at", "last_login"}
       /\ DocIdStr(last'.res.body.id) = last'.cookie.token.user_id
       /\ last'.res.body.github_id
             = DocOf(coll, last'.cookie.token.user_id[2]).github_id

EndToEndStep == CallbackTokenNamesUser /\ IdentityKept /\ MeResolves

\* C25: the token oauth_callback returns has the returned User's id as its
\* subject, and a later /me request carrying that token, while the token is
\* unexpired and the record exists, answers with that same record (same id
\* and external id) and with no secret field.
C25_EndToEnd == [][EndToEndStep]_vars

\* A /me answer for a token issued a week minus a second ago, for a record
\* a later callback has updated
C25_Witness ==
    /\ last.op = "me"
    /\ last.res.ok
    /\ last.cookie.token.iat = 0
    /\ now = Days(JWT_EXPIRATION_DAYS) - 1
    /\ last.res.body.last_login > last.res.body.created_at


-----------------------------------------------------------------------------
(* OAuth logout and refresh (backend/auth_oauth.py 172-217)                *)

\* What is stored on the server side
Stored == <<coll, vault, fernetLog, master, users, sessions>>

\* Every token an endpoint returned verifies exactly while it is unexpired,
\* whatever requests were served since
VerifiesUntilExpiry ==
    \A k \in jwts : verify_jwt_token(k, now).ok <=> Unexpired(k)

\* POST /auth/logout answers success and changes nothing
OAuthLogoutFrame ==
    (last' # last /\ last'.op = "logout") =>
        /\ last'.res.ok
        /\ Stored' = Stored
        /\ jwts' = jwts
        /\ \A k \in jwts :
              /\ verify_jwt_token(k, now') = verify_jwt_token(k, now)
              /\ me(coll', Cookie(k), NoHeader, now')
                    = me(coll, Cookie(k), NoHeader, now)

\* GET /auth/refresh returns a token exactly when the presented token
\* verifies and its User exists, for the same subject, and changes nothing
RefreshFrame ==
    (last' # last /\ last'.op = "refresh_token") =>
        LET auth == get_current_user_from_request(last'.cookie, NoHeader,
                                                   now)
        IN /\ last'.res.ok <=>
                 (auth.ok /\ FindById(coll, auth.user_id[2]) # {})
           /\ last'.res.ok =>
                 /\ last'.res.token.user_id = last'.cookie.token.user_id
                 /\ last'.res.token.iat = ToTimestamp(now)
                 /\ verify_jwt_token(last'.res.token, now).ok
                 /\ jwts' = jwts \cup {last'.res.token}
           /\ ~last'.res.ok =>
                 /\ last'.res.token = NoToken
                 /\ jwts' = jwts
           /\ Stored' = Stored
           /\ \A k \in jwts :
                 /\ verify_jwt_token(k, now') = verify_jwt_token(k, now)
                 /\ me(coll', Cookie(k), NoHeader, now')
                       = me(coll, Cookie(k), NoHeader, now)

NothingRevoked == OAuthLogoutFrame /\ RefreshFrame

\* C29: OAuth logout changes no stored state; refresh issues a new token,
\* for the same subject, exactly when the presented token verifies and its
\* User exists; and after either, every previously issued token verifies
\* as before, until its own expiry.
C29_NothingRevoked == [](VerifiesUntilExpiry) /\ [][NothingRevoked]_vars

\* After one callback and a later refresh, a logout that presented one of
\* the two tokens of the subject: both still verify
C29_Witness ==
    /\ last.op = "logout"
    /\ last.cookie.present
    /\ last.cookie.token \in jwts
    /\ Len(vault) = 1
    /\ \A t \in Tasks : tpc[t] = "idle"
    /\ \E k \in jwts :
          /\ k # last.cookie.token
          /\ k.user_id = last.cookie.token.user_id
          /\ verify_jwt_token(k, now).ok
          /\ verify_jwt_token(last.cookie.token, now).ok


-----------------------------------------------------------------------------
(* Status classes of failures (backend/logic/api.py 732-788,               *)
(* backend/auth_oauth.py 103-169)                                          *)

PwOps == {"create_user", "authenticate_user", "verify_token", "logout_user"}

\* The HTTP answer of the endpoint that made the call
Response(call) ==
    IF call.op = "create_user" THEN signup(call.res)
    ELSE IF call.op = "authenticate_user" THEN login(call.res)
    ELSE IF call.op = "verify_token" THEN current_user(call.res)
    ELSE IF call.op = "logout_user" THEN api_logout(call.res)
    ELSE call.res

\* The kind of the failure
Cause(call) ==
    IF "cause" \in DOMAIN call THEN call.cause
    ELSE IF call.op \in PwOps /\ call.res.message \in StorageMessages
      THEN "storage"
    ELSE "none"

\* The status class the kinds of failure are to have
Expected(call) ==
    IF Cause(call) = "storage" THEN 500
    ELSE IF Cause(call) = "malformed" THEN 400
    ELSE IF call.op = "create_user" THEN 400
    ELSE IF call.op = "me"
              /\ get_current_user_from_request(call.cookie, NoHeader, now).ok
      THEN 404
    ELSE 401

StatusOfKind ==
    (last' # last /\ last'.op # "none" /\ ~Response(last').ok)
        => Response(last').status = Expected(last')

\* C23: every failure an endpoint returns has the status of its kind: 401
\* for authentication failures, 404 for a valid token whose record is
\* missing, 400 for malformed or duplicate input, 500 for a persistence
\* failure.
C23_StatusClasses == [][StatusOfKind]_vars

\* The same without persistence failures and malformed external ids
StatusOfOtherKinds ==
    (last' # last /\ last'.op # "none" /\ ~Response(last').ok
        /\ Cause(last') = "none")
        => Response(last').status = Expected(last')

C23_OtherKinds == [][StatusOfOtherKinds]_vars


-----------------------------------------------------------------------------
(* Claim shape of the two token variants (backend/auth_oauth.py 42-73,     *)
(* backend/logic/auth.py 123-132, 161-164)                                 *)

\* subject, issuer, audience, issued-at and expiry, the expiry a lifetime
\* of ttl seconds after the issue
ClaimShape(k, ttl) ==
    /\ k.user_id[1] # "none"
    /\ k.iss # ""
    /\ k.aud # ""
    /\ k.iat # -1
    /\ k.exp = k.iat + ttl

Configured(k) ==
    /\ k.iss = "space-biology-engine"
    /\ k.aud = "space-biology-frontend"

\* The OAuth variant: tokens of create_jwt_token, and verify_jwt_token
OAuthShape ==
    /\ \A id \in SubjectIds :
          ClaimShape(create_jwt_token(id, now),
                     JWT_EXPIRATION_DAYS * 24 * SecondsPerHour)
    /\ (last.op = "verify_jwt_token" /\ last.res.ok) => Configured(last.token)

\* The password variant: tokens of authenticate_user, and verify_token
PasswordShape ==
    /\ \A k \in issued :
          ClaimShape(k, JWT_EXPIRATION_HOURS * SecondsPerHour)
    /\ (last.op = "verify_token" /\ last.res.success)
          => Configured(last.token)

\* C24: both token variants carry subject, issuer, audience, issued-at and
\* expiry, with expiry = issued-at + the variant's lifetime, and the
\* verification of either variant accepts no token whose issuer or audience
\* is missing or differs from the configured value.
C24_SameClaimShape == OAuthShape /\ PasswordShape

\* The OAuth variant alone
C24_OAuthVariant == OAuthShape


-----------------------------------------------------------------------------
(* Isolation of the two paths (backend/auth_oauth.py 55-73,                *)
(* backend/logic/auth.py 161-196)                                          *)

\* A token create_jwt_token of the OAuth path returned at some time
OAuthToken(k) ==
    /\ k.iat >= 0
    /\ \E id \in SubjectIds : k = create_jwt_token(id, k.iat * TicksPerSec)

\* C26: both paths sign with the same secret, and yet verify_jwt_token
\* accepts no token authenticate_user returned, and verify_token accepts no
\* token create_jwt_token of the OAuth path returned.
C26_PathIsolation ==
    /\ (last.op = "verify_jwt_token" /\ last.token \in issued)
          => ~last.res.ok
    /\ (last.op = "verify_token" /\ OAuthToken(last.token))
          => ~last.res.success

\* verify_jwt_token has refused a password-path token that is well signed,
\* unexpired and has a live session row
C26_Witness ==
    /\ JWT_SECRET = EnvJwtSecret
    /\ last.op = "verify_jwt_token"
    /\ last.token \in issued
    /\ SigValid(last.token)
    /\ Unexpired(last.token)
    /\ LiveRow(last.token)
    /\ ~last.res.ok


-----------------------------------------------------------------------------
(* Session rows after insertion (backend/logic/auth.py 134-143, 198-217)   *)

\* A step leaves token_hash, user_id and expires_at of every row as they
\* were and sets no is_active from 0 to 1
RowsMonotonic ==
    \A i \in 1..Len(sessions) :
        /\ i <= Len(sessions')
        /\ sessions'[i].token_hash = sessions[i].token_hash
        /\ sessions'[i].user_id = sessions[i].user_id
        /\ sessions'[i].expires_at = sessions[i].expires_at
        /\ sessions'[i].is_active => sessions[i].is_active

\* C27: no operation sets is_active of an existing user_sessions row from
\* 0 back to 1, and none changes a row's token_hash, user_id or expires_at
\* after its insertion.
C27_DeactivationMonotonic == [][RowsMonotonic]_vars

\* A token logged out a second time, after the account logged in again: its
\* row is still inactive, the later row of the account is active
C27_Witness ==
    /\ last.op = "logout_user"
    /\ last.revoked
    /\ Len(sessions) = 2
    /\ sessions[1].token_hash = Sha256(last.token)
    /\ ~sessions[1].is_active
    /\ sessions[2].is_active
    /\ sessions[2].user_id = sessions[1].user_id
    /\ sessions[2].token_hash # sessions[1].token_hash


-----------------------------------------------------------------------------
(* Failed password operations (backend/logic/auth.py 63-96, 98-157)        *)

\* The tables of the password store
Tables == <<users, sessions>>

\* After a step the last call is a failed authenticate_user: the step
\* inserted no session row, and the call returned no token
FailedLoginFrame ==
    (last'.op = "authenticate_user" /\ ~last'.res.success) =>
        /\ Tables' = Tables
        /\ issued' = issued
        /\ last'.res.token = NoToken

\* After a step the last call is a failed create_user: the users table is
\* as it was
FailedSignupFrame ==
    (last'.op = "create_user" /\ ~last'.res.success) =>
        /\ users' = users
        /\ ~last'.added

FailedFrame == FailedLoginFrame /\ FailedSignupFrame

-----------------------------------------------------------------------------
(* verify_token and the account's is_active (backend/logic/auth.py 161-191) *)

\* The account a token names is deactivated
OwnerDeactivated(t) ==
    \E u \in 1..Len(users) :
        /\ <<"int", users[u].id>> = t.user_id
        /\ ~users[u].is_active

\* The identity verify_token returns for a token: its claims
ClaimedIdentity(t) ==
    [id |-> t.user_id, username |-> t.username, email |-> t.email]

\* C30: verify_token of a well-signed, unexpired token with an active,
\* unexpired session row succeeds whether or not the owning account is
\* active, and the identity it returns is that of the token's claims.
C30_IgnoresAccountFlag ==
    (/\ last.op = "verify_token"
     /\ SigValid(last.token)
     /\ Unexpired(last.token)
     /\ last.token.aud = ""
     /\ LiveRow(last.token))
    => /\ last.res.success
       /\ last.res.user = ClaimedIdentity(last.token)

\* A token was verified after its account had been deactivated
C30_Witness ==
    /\ last.op = "verify_token"
    /\ last.res.success
    /\ LiveRow(last.token)
    /\ OwnerDeactivated(last.token)
    /\ last.res.user = ClaimedIdentity(last.token)

=============================================================================
